---- MODULE Spec2Model ----
(***************************************************************************)
(* A model of the redlox bytecode interpreter: the chunk and its           *)
(* variable-length instruction encoding (src/src/code.rs), the single-pass *)
(* compiler (src/src/parser.rs) over the token stream of the scanner       *)
(* (src/src/parser/scanner.rs), and the virtual machine (src/src/vm.rs).   *)
(*                                                                         *)
(* Offsets, slots and symbol ids are 0-based as in the source; TLA+        *)
(* sequences are 1-based, so the code unit at offset o is code[o + 1].     *)
(***************************************************************************)
EXTENDS Integers, Sequences, FiniteSets, TLC

(***************************************************************************)
(* Opcodes (code.rs, mod Op).                                              *)
(***************************************************************************)
Op_Nil == 0
Op_True == 1
Op_False == 2
Op_Pop == 3
Op_Print == 4
Op_Return == 5
Op_Not == 6
Op_Negate == 7
Op_Equal == 8
Op_Greater == 9
Op_Less == 10
Op_Add == 11
Op_Subtract == 12
Op_Multiply == 13
Op_Divide == 14
Op_Nop == 127
Op_Constant == 128
Op_PopN == 129
Op_DefineGlobal == 130
Op_GetGlobal == 131
Op_SetGlobal == 132
Op_GetLocal == 133
Op_SetLocal == 134
Op_JumpIfFalse == 135
Op_Jump == 136
Op_Loop == 137
Op_Extend == 138
Op_Call == 139

\* Chunk::MAX_CONSTS and Vm::MAX_STACK
MAX_CONSTS == 16777215
MAX_STACK == 65536

\* The operand write_jump emits as a placeholder (0xfff).
JUMP_PLACEHOLDER == 4095

\* The symbol of the local that a switch statement injects: u32::MAX in the
\* source, an id that no interned name has.  TLC's integers end at 2^31 - 1,
\* so it is written as a negative number here.
INJECTED_SYM == -1

(***************************************************************************)
(* Machine arithmetic.                                                     *)
(***************************************************************************)
RECURSIVE Pow2(_)
Pow2(n) == IF n = 0 THEN 1 ELSE 2 * Pow2(n - 1)

\* 32 - x.leading_zeros() for a u32 x: the number of significant bits.
RECURSIVE BitLen(_)
BitLen(x) == IF x = 0 THEN 0 ELSE 1 + BitLen(x \div 2)

\* x.to_be_bytes()[i] for a u32 x, i in 0..3.
BEByte(x, i) == (x \div Pow2(8 * (3 - i))) % 256

\* u16::from_be_bytes([hi, lo])
U16(hi, lo) == hi * 256 + lo

\* The two bytes of a code unit.
HiByte(unit) == unit \div 256
LoByte(unit) == unit % 256

(***************************************************************************)
(* Chunk (code.rs).  A chunk is a record                                   *)
(*   code      : the u16 code units,                                       *)
(*   constants : the constant pool,                                        *)
(*   lines     : LineMap.lines, one line per code unit,                    *)
(*   current   : LineMap.current.                                          *)
(***************************************************************************)
NewChunk == [code |-> <<>>, constants |-> <<>>, lines |-> <<>>, current |-> 1]

chunk_len(c) == Len(c.code)

new_line(c, line) == [c EXCEPT !.current = line]

get_line(c, offset) == c.lines[offset + 1]

\* A variant of push_op that records no line for an Extend unit.
push_op_line_per_instruction(c, op, arg) ==
    [c EXCEPT !.code = Append(@, U16(op, arg)), !.lines = IF op = Op_Extend THEN @ ELSE Append(@, c.current)]

push_op(c, op, arg) == [c EXCEPT !.code = Append(@, U16(op, arg)), !.lines = Append(@, c.current)]

write_op(c, op) == push_op(c, op, 0)

\* The Extend units of write_op_arg: the bytes ext_arg.to_be_bytes()[start..].
RECURSIVE push_extend(_, _, _)
push_extend(c, ext_arg, i) ==
    IF i > 3 THEN c
    ELSE push_extend(push_op(c, Op_Extend, BEByte(ext_arg, i)), ext_arg, i + 1)

ext_start(ext_arg) == 3 - BitLen(ext_arg) \div 8

\* A variant of write_op_arg that keeps one byte above the low byte: the
\* round trip of the encoding does not hold of it.
write_op_arg_short(c, op, arg) ==
    IF arg > 255
    THEN push_op(push_op(c, Op_Extend, (arg \div 256) % 256), op, arg % 256)
    ELSE push_op(c, op, arg % 256)

write_op_arg(c, op, arg) ==
    IF arg > 255
    THEN push_op(push_extend(c, arg \div 256, ext_start(arg \div 256)), op, arg % 256)
    ELSE push_op(c, op, arg % 256)

write_jump(c, op) == write_op_arg(c, op, JUMP_PLACEHOLDER)

chunk_patch_jump(c, offset, delta) ==
    [c EXCEPT !.code[offset + 1] = U16(HiByte(c.code[offset + 1]), delta \div 256),
              !.code[offset + 2] = U16(HiByte(c.code[offset + 2]), delta % 256)]

\* Instruction::new()
NewInstruction == [opcode |-> Op_Nop, operand |-> 0, len |-> 1]

\* The loop of get_instruction, entered with inst and idx.  The low byte of
\* inst.operand is zero when a unit is read, so `|=` adds the unit's byte.
\* `operand <<= 8` on a u32 drops the top byte.
RECURSIVE get_instruction_loop(_, _, _)
get_instruction_loop(c, inst, idx) ==
    LET unit == c.code[idx + 1]
        got == [inst EXCEPT !.opcode = HiByte(unit), !.operand = inst.operand + LoByte(unit)]
    IN IF got.opcode # Op_Extend THEN got
       ELSE IF idx + 1 >= Len(c.code) THEN got
       ELSE get_instruction_loop(c, [got EXCEPT !.operand = (@ % 16777216) * 256, !.len = @ + 1], idx + 1)

get_instruction(c, offset) == get_instruction_loop(c, NewInstruction, offset)

\* A variant of add_constant that refuses a value when the pool holds more
\* than MAX_CONSTS values.
add_constant_one_more(c, value) ==
    IF Len(c.constants) > MAX_CONSTS
    THEN [ok |-> FALSE, chunk |-> c, idx |-> 0]
    ELSE [ok |-> TRUE, chunk |-> [c EXCEPT !.constants = Append(@, value)], idx |-> Len(c.constants)]

add_constant(c, value) ==
    IF Len(c.constants) >= MAX_CONSTS
    THEN [ok |-> FALSE, chunk |-> c, idx |-> 0]
    ELSE [ok |-> TRUE, chunk |-> [c EXCEPT !.constants = Append(@, value)], idx |-> Len(c.constants)]

get_constant(c, idx) == c.constants[idx + 1]

(***************************************************************************)
(* Values (lib.rs, enum Value; vm.rs uses the Builtin variant as well).    *)
(* Numbers are modelled by integers.                                       *)
(***************************************************************************)
ValNil == [t |-> "Nil", v |-> 0]
ValBoolean(b) == [t |-> "Boolean", v |-> b]
ValNumber(n) == [t |-> "Number", v |-> n]
ValString(s) == [t |-> "String", v |-> s]
ValBuiltin(name) == [t |-> "Builtin", v |-> name]
ValFunction(f) == [t |-> "Function", v |-> f]

\* A variant of the equality of values for which the variant alone decides.
ValueEq_variant(a, b) == a.t = b.t

\* impl PartialEq for Value (derived): same variant and equal contents.
ValueEq(a, b) == a.t = b.t /\ (a.t = "Nil" \/ a.v = b.v)

\* impl From<Value> for bool
Truthy(val) == ~(val.t = "Nil" \/ (val.t = "Boolean" /\ val.v = FALSE))

\* impl Display for Value
Display(val) ==
    CASE val.t = "Nil" -> "nil"
      [] val.t = "Boolean" -> IF val.v THEN "true" ELSE "false"
      [] val.t = "Number" -> ToString(val.v)
      [] OTHER -> val.v

(***************************************************************************)
(* Symbol table (vm.rs, SymTable): symbols maps a name to its id, names    *)
(* maps an id (0-based) to its name.                                       *)
(***************************************************************************)
NewSymTable == [symbols |-> <<>>, names |-> <<>>]

\* HashMap::get on symbols, which is kept as a sequence of <<name, id>> pairs.
sym_get(st, ident) == {e \in {st.symbols[i] : i \in DOMAIN st.symbols} : e[1] = ident}

\* A variant of intern that does not look the identifier up: every call
\* allocates an id.
intern_fresh(st, ident) ==
    [st |-> [symbols |-> Append(st.symbols, <<ident, Len(st.names)>>), names |-> Append(st.names, ident)],
     sym |-> Len(st.names)]

intern(st, ident) ==
    IF sym_get(st, ident) # {}
    THEN [st |-> st, sym |-> (CHOOSE e \in sym_get(st, ident) : TRUE)[2]]
    ELSE [st |-> [symbols |-> Append(st.symbols, <<ident, Len(st.names)>>), names |-> Append(st.names, ident)],
          sym |-> Len(st.names)]

lookup(st, sym) == st.names[sym + 1]

(***************************************************************************)
(* The scanner (parser/scanner.rs), modelled by the stream of results of   *)
(* successive scan_token calls.  A source is a sequence of lexemes, each   *)
(* already classified, with NL standing for a newline between lexemes and  *)
(* nl for the number of newlines inside a lexeme; Scan gives every result  *)
(* the line that the scanner has counted when it makes the token.          *)
(***************************************************************************)
Punct ==
    [x \in {"(", ")", "{", "}", ";", ",", ".", ":", "-", "+", "/", "*", "!", "!=", "=", "==", "<", "<=", ">", ">="} |->
        CASE x = "(" -> "LeftParen" [] x = ")" -> "RightParen"
          [] x = "{" -> "LeftBrace" [] x = "}" -> "RightBrace"
          [] x = ";" -> "Semicolon" [] x = "," -> "Comma"
          [] x = "." -> "Dot" [] x = ":" -> "Colon"
          [] x = "-" -> "Minus" [] x = "+" -> "Plus"
          [] x = "/" -> "Slash" [] x = "*" -> "Star"
          [] x = "!" -> "Bang" [] x = "!=" -> "BangEqual"
          [] x = "=" -> "Equal" [] x = "==" -> "EqualEqual"
          [] x = "<" -> "Less" [] x = "<=" -> "LessEqual"
          [] x = ">" -> "Greater" [] x = ">=" -> "GreaterEqual"]

Keyword ==
    [x \in {"and", "break", "case", "class", "continue", "default", "else", "false", "for", "fun", "if", "nil", "or", "print", "return", "super", "switch", "this", "true", "var", "while"} |->
        CASE x = "and" -> "And" [] x = "break" -> "Break" [] x = "case" -> "Case"
          [] x = "class" -> "Class" [] x = "continue" -> "Continue"
          [] x = "default" -> "Default" [] x = "else" -> "Else"
          [] x = "false" -> "False" [] x = "for" -> "For" [] x = "fun" -> "Fun"
          [] x = "if" -> "If" [] x = "nil" -> "Nil" [] x = "or" -> "Or"
          [] x = "print" -> "Print" [] x = "return" -> "Return"
          [] x = "super" -> "Super" [] x = "switch" -> "Switch"
          [] x = "this" -> "This" [] x = "true" -> "True" [] x = "var" -> "Var"
          [] x = "while" -> "While"]

\* Lexemes of a source text.
p(x) == [ok |-> TRUE, ty |-> Punct[x], text |-> x, body |-> "", nl |-> 0]
k(x) == [ok |-> TRUE, ty |-> Keyword[x], text |-> x, body |-> "", nl |-> 0]
id(x) == [ok |-> TRUE, ty |-> "Identifier", text |-> x, body |-> "", nl |-> 0]
num(n) == [ok |-> TRUE, ty |-> "Number", text |-> ToString(n), body |-> "", nl |-> 0]
str(x) == [ok |-> TRUE, ty |-> "String", text |-> "\"" \o x \o "\"", body |-> x, nl |-> 0]
\* A string literal with n newlines between its quotes.
mstr(x, n) == [ok |-> TRUE, ty |-> "String", text |-> "\"" \o x \o "\"", body |-> x, nl |-> n]
\* A byte that starts no token: scan_token fails.
bad(x) == [ok |-> FALSE, ty |-> "Eof", text |-> "unexpected character '" \o x \o "'", body |-> "", nl |-> 0]
NL == [ok |-> TRUE, ty |-> "NL", text |-> "", body |-> "", nl |-> 1]

\* Token::new()
DefaultToken == [ok |-> TRUE, ty |-> "Eof", text |-> "", body |-> "", line |-> 1]

\* Scanner.line when the token of lexeme i is made: 1 and the newlines that
\* skip_whitespace and string have counted, those inside lexeme i included.
RECURSIVE LineAt(_, _)
LineAt(lexemes, i) == IF i = 0 THEN 1 ELSE LineAt(lexemes, i - 1) + lexemes[i].nl

\* The results of the scan_token calls on a source, and the line of its Eof.
Scan(lexemes) ==
    [items |-> SelectSeq([i \in DOMAIN lexemes |->
                            [ok |-> lexemes[i].ok, ty |-> lexemes[i].ty, text |-> lexemes[i].text,
                             body |-> lexemes[i].body, line |-> LineAt(lexemes, i)]],
                         LAMBDA t : t.ty # "NL"),
     eof_line |-> LineAt(lexemes, Len(lexemes))]

\* Scanner::scan_token at position pos of the stream: past the last lexeme
\* it returns Eof again and again.
scan_token(src, pos) ==
    IF pos < Len(src.items) THEN src.items[pos + 1]
    ELSE [ok |-> TRUE, ty |-> "Eof", text |-> "", body |-> "", line |-> src.eof_line]

(***************************************************************************)
(* The scanner on the bytes of a text (parser/scanner.rs), for texts of    *)
(* digits, `.`, `;`, `"`, blanks and newlines.  A text is a sequence of    *)
(* characters; a                                                           *)
(* scanner is [text, pos, current, line] with pos for Source.current and   *)
(* current for Scanner.current, the start of the token; a token is         *)
(* [ty, start, end, line].  None stands for the Option that has no byte.   *)
(***************************************************************************)
None == ""

NewScanner(text) == [text |-> text, pos |-> 0, current |-> 0, line |-> 1]

is_digit(c) == c \in {"0", "1", "2", "3", "4", "5", "6", "7", "8", "9"}

source_peek(sc) == IF sc.pos < Len(sc.text) THEN sc.text[sc.pos + 1] ELSE None

source_peek_peek(sc) == IF sc.pos + 1 < Len(sc.text) THEN sc.text[sc.pos + 2] ELSE None

\* Source::next: the scanner after the call; its result is source_peek(sc).
source_next(sc) == IF source_peek(sc) # None THEN [sc EXCEPT !.pos = @ + 1] ELSE sc

\* skip_while(Scanner::is_digit)
RECURSIVE skip_digits(_)
skip_digits(sc) == IF is_digit(source_peek(sc)) THEN skip_digits([sc EXCEPT !.pos = @ + 1]) ELSE sc

\* skip_whitespace on a text without `/`: blanks and newlines are skipped,
\* newlines counted, and the token starts where that ends.
RECURSIVE skip_blanks(_)
skip_blanks(sc) ==
    IF source_peek(sc) \in {" ", "\r", "\t"} THEN skip_blanks([sc EXCEPT !.pos = @ + 1])
    ELSE IF source_peek(sc) = "\n" THEN skip_blanks([sc EXCEPT !.pos = @ + 1, !.line = @ + 1])
    ELSE sc

skip_whitespace(sc) == [skip_blanks(sc) EXCEPT !.current = skip_blanks(sc).pos]

make_token(sc, ty) == [ty |-> ty, start |-> sc.current, end |-> sc.pos, line |-> sc.line]

\* A variant of Scanner::number that takes a `.` after the digits whatever
\* follows it.
scanner_number_greedy(sc) ==
    IF source_peek(skip_digits(sc)) = "."
    THEN skip_digits(source_next(skip_digits(sc)))
    ELSE skip_digits(sc)

\* Scanner::number: the scanner after the call; the token returned is
\* make_token of it.
scanner_number(sc) ==
    IF source_peek(skip_digits(sc)) = "." /\ is_digit(source_peek_peek(skip_digits(sc)))
    THEN skip_digits(source_next(skip_digits(sc)))
    ELSE skip_digits(sc)

\* The skip_while of Scanner::string: up to the closing quote or the end of
\* the text, newlines counted.
RECURSIVE skip_string(_)
skip_string(sc) ==
    IF source_peek(sc) = None \/ source_peek(sc) = "\"" THEN sc
    ELSE IF source_peek(sc) = "\n" THEN skip_string([sc EXCEPT !.pos = @ + 1, !.line = @ + 1])
    ELSE skip_string([sc EXCEPT !.pos = @ + 1])

\* An Err(msg) of scan_token, with the line that Scanner::line then gives
\* (the line Parser::scan_error reports it at).
make_error(sc, msg) == [ty |-> "Error", start |-> sc.current, end |-> sc.pos, line |-> sc.line, msg |-> msg]

\* A variant of Scanner::string that leaves the line counter where the end
\* of the text has brought it.
scanner_string_no_reset(sc) ==
    IF source_peek(skip_string(sc)) = None
    THEN [sc |-> skip_string(sc), token |-> make_error(skip_string(sc), "unterminated string")]
    ELSE [sc |-> source_next(skip_string(sc)), token |-> make_token(source_next(skip_string(sc)), "String")]

\* Scanner::string, called after the opening quote: the scanner after the
\* call and the token or the error returned.
scanner_string(sc) ==
    IF source_peek(skip_string(sc)) = None
    THEN [sc |-> [skip_string(sc) EXCEPT !.line = sc.line],
          token |-> make_error([skip_string(sc) EXCEPT !.line = sc.line], "unterminated string")]
    ELSE [sc |-> source_next(skip_string(sc)), token |-> make_token(source_next(skip_string(sc)), "String")]

\* Scanner::scan_token on the bytes of a text of digits, `.`, `;`, `"`,
\* blanks and newlines: the scanner after the call and the token returned.
scanner_scan_token(sc) ==
    LET ws == skip_whitespace(sc)
        c == source_peek(ws)
        nx == source_next(ws)
    IN IF c = None THEN [sc |-> ws, token |-> make_token(ws, "Eof")]
       ELSE IF is_digit(c) THEN [sc |-> scanner_number(nx), token |-> make_token(scanner_number(nx), "Number")]
       ELSE IF c = ";" THEN [sc |-> nx, token |-> make_token(nx, "Semicolon")]
       ELSE IF c = "\"" THEN scanner_string(nx)
       ELSE [sc |-> nx, token |-> make_token(nx, "Dot")]

(***************************************************************************)
(* Precedences (parser.rs, mod Prec).                                      *)
(***************************************************************************)
Prec_None == 0
Prec_Assignment == 1
Prec_Or == 2
Prec_And == 3
Prec_Equality == 4
Prec_Comparison == 5
Prec_Term == 6
Prec_Factor == 7
Prec_Unary == 8

\* A variant of for_op_type that gives `*` and `/` the precedence of `+`
\* and `-`.
for_op_type_flat(ty) ==
    CASE ty \in {"Minus", "Plus", "Slash", "Star"} -> Prec_Term
      [] ty \in {"BangEqual", "EqualEqual"} -> Prec_Equality
      [] ty \in {"Greater", "GreaterEqual", "Less", "LessEqual"} -> Prec_Comparison
      [] ty = "And" -> Prec_And
      [] ty = "Or" -> Prec_Or
      [] OTHER -> Prec_None

for_op_type(ty) ==
    CASE ty \in {"Minus", "Plus"} -> Prec_Term
      [] ty \in {"Slash", "Star"} -> Prec_Factor
      [] ty \in {"BangEqual", "EqualEqual"} -> Prec_Equality
      [] ty \in {"Greater", "GreaterEqual", "Less", "LessEqual"} -> Prec_Comparison
      [] ty = "And" -> Prec_And
      [] ty = "Or" -> Prec_Or
      [] OTHER -> Prec_None

(***************************************************************************)
(* Locals (parser.rs): depth and the array of locals {sym, depth}.         *)
(***************************************************************************)
NewLocals == [depth |-> 0, locals |-> <<>>]

\* The search of Locals::add, from the last local down: TRUE when the name
\* is found before a local of an enclosing scope stops the search.
RECURSIVE add_finds(_, _, _)
add_finds(ls, sym, i) ==
    IF i = 0 THEN FALSE
    ELSE IF ls.locals[i].depth # -1 /\ ls.locals[i].depth < ls.depth THEN FALSE
    ELSE IF ls.locals[i].sym = sym THEN TRUE
    ELSE add_finds(ls, sym, i - 1)

\* A variant of Locals::add that looks for the name in every scope.
locals_add_any_scope(ls, sym) ==
    IF \E i \in DOMAIN ls.locals : ls.locals[i].sym = sym
    THEN [ok |-> FALSE, ls |-> ls]
    ELSE [ok |-> TRUE, ls |-> [ls EXCEPT !.locals = Append(@, [sym |-> sym, depth |-> -1])]]

locals_add(ls, sym) ==
    IF add_finds(ls, sym, Len(ls.locals))
    THEN [ok |-> FALSE, ls |-> ls]
    ELSE [ok |-> TRUE, ls |-> [ls EXCEPT !.locals = Append(@, [sym |-> sym, depth |-> -1])]]

locals_begin_scope(ls) == [ls EXCEPT !.depth = @ + 1]

RECURSIVE count_from(_, _, _)
count_from(ls, depth, count) ==
    IF count + 1 <= Len(ls.locals) /\ ls.locals[Len(ls.locals) - (count + 1) + 1].depth > depth
    THEN count_from(ls, depth, count + 1)
    ELSE count

count_to_depth(ls, depth) == count_from(ls, depth, 0)

\* A variant of Locals::end_scope that leaves the last local of the scope
\* in the array.
locals_end_scope_keep_one(ls) ==
    [ls |-> [depth |-> ls.depth - 1,
             locals |-> SubSeq(ls.locals, 1, Len(ls.locals) - count_to_depth(ls, ls.depth - 1)
                                             + (IF count_to_depth(ls, ls.depth - 1) > 0 THEN 1 ELSE 0))],
     count |-> count_to_depth(ls, ls.depth - 1)]

\* Locals::end_scope: the locals left and the number popped.
locals_end_scope(ls) ==
    LET n == count_to_depth(ls, ls.depth - 1)
    IN [ls |-> [depth |-> ls.depth - 1, locals |-> SubSeq(ls.locals, 1, Len(ls.locals) - n)], count |-> n]

inject(ls) == [ls |-> [ls EXCEPT !.locals = Append(@, [sym |-> INJECTED_SYM, depth |-> ls.depth])], slot |-> Len(ls.locals)]

mark_initialized(ls) == [ls EXCEPT !.locals[Len(ls.locals)].depth = ls.depth]

\* A variant of Locals::resolve that passes over a local that is not
\* initialized: the name then stands for an enclosing local or a global.
resolve_initialized(ls, sym) ==
    LET found == {i \in DOMAIN ls.locals : ls.locals[i].sym = sym /\ ls.locals[i].depth # -1}
        last == CHOOSE i \in found : \A j \in found : j <= i
    IN IF found = {} THEN [some |-> FALSE, slot |-> 0, is_initialized |-> FALSE]
       ELSE [some |-> TRUE, slot |-> last - 1, is_initialized |-> TRUE]

\* Locals::resolve: the last local of that name, if any.
resolve(ls, sym) ==
    LET found == {i \in DOMAIN ls.locals : ls.locals[i].sym = sym}
        last == CHOOSE i \in found : \A j \in found : j <= i
    IN IF found = {} THEN [some |-> FALSE, slot |-> 0, is_initialized |-> FALSE]
       ELSE [some |-> TRUE, slot |-> last - 1, is_initialized |-> ls.locals[last].depth # -1]

top_level(ls) == ls.depth = 0

\* Option<LoopInfo>
NoLoop == [some |-> FALSE, depth |-> 0, loop_start |-> 0, exit_jump |-> 0]
SomeLoop(depth, loop_start, exit_jump) == [some |-> TRUE, depth |-> depth, loop_start |-> loop_start, exit_jump |-> exit_jump]

\* v under the name that F gives it: a let binding of the source.
With(v, F(_)) == F(v)

(***************************************************************************)
(* Parser (parser.rs).  The parser state is a record                       *)
(*   src, pos              : the scanner's stream and its position,        *)
(*   current, previous     : tokens,                                       *)
(*   had_error, panic_mode : flags,                                        *)
(*   locals                : Locals,                                       *)
(*   chunk                 : the chunk being written (chunks has one),     *)
(*   stderr                : the lines written to the stderr sink,         *)
(*   symtab                : the symbol table of the vm argument,          *)
(*   log                   : history of this compilation: "E" for a line   *)
(*                           written to stderr, "S" for a synchronize,     *)
(*   dbg                   : code ranges of the loops, break and continue  *)
(*                           statements, local declarations and `and` and  *)
(*                           `or` operators compiled; emits has, for every *)
(*                           instruction emitted, its code units and the   *)
(*                           line of the current token at that time;       *)
(*                           scopes has the locals array as it was at each *)
(*                           begin_scope not yet ended, and left, for      *)
(*                           every end_scope, the array at the matching    *)
(*                           begin_scope, the array before and after the   *)
(*                           call, the depth after it and the code units   *)
(*                           it emitted; stmts has the code range of every *)
(*                           statement compiled.                           *)
(*   seen                  : the tokens that were left when the loop of    *)
(*                           parse last began a turn, -1 before the first. *)
(* log, dbg and seen are history only: nothing the parser does reads them. *)
(***************************************************************************)
NewDbg ==
    [loops |-> <<>>, breaks |-> <<>>, conts |-> <<>>, decls |-> <<>>, logic |-> <<>>, emits |-> <<>>,
     scopes |-> <<>>, left |-> <<>>, stmts |-> <<>>]

\* A variant of Parser::new that compiles against a symbol table of its own:
\* symbol ids do not outlive a call with it.
NewParserFreshSymbols(src, stderr_sink, st) ==
    [src |-> src, pos |-> 0, current |-> DefaultToken, previous |-> DefaultToken,
     had_error |-> FALSE, panic_mode |-> FALSE, locals |-> NewLocals, chunk |-> NewChunk,
     stderr |-> stderr_sink, symtab |-> NewSymTable, log |-> <<>>, dbg |-> NewDbg, ctl |-> <<>>, seen |-> -1]

\* Parser::new
NewParser(src, stderr_sink, st) ==
    [src |-> src, pos |-> 0, current |-> DefaultToken, previous |-> DefaultToken,
     had_error |-> FALSE, panic_mode |-> FALSE, locals |-> NewLocals, chunk |-> NewChunk,
     stderr |-> stderr_sink, symtab |-> st, log |-> <<>>, dbg |-> NewDbg, ctl |-> <<>>, seen |-> -1]

\* A variant of report_error that does not look at panic_mode: every error
\* is written with it.
report_error_always(ps, line, msg) ==
    [ps EXCEPT !.panic_mode = TRUE, !.had_error = TRUE,
               !.stderr = Append(@, "[line " \o ToString(line) \o "] Error" \o msg),
               !.log = Append(@, "E")]

report_error(ps, line, msg) ==
    IF ps.panic_mode THEN ps
    ELSE [ps EXCEPT !.panic_mode = TRUE, !.had_error = TRUE,
                    !.stderr = Append(@, "[line " \o ToString(line) \o "] Error" \o msg),
                    !.log = Append(@, "E")]

error_at(ps, token, msg) ==
    report_error(ps, token.line, IF token.ty = "Eof" THEN " at end: " \o msg ELSE " at '" \o token.text \o "': " \o msg)

error(ps, msg) == error_at(ps, ps.previous, msg)

\* scan_error reports at scanner.line(), the line of the failed scan.
scan_error(ps, err) == report_error(ps, err.line, ": " \o err.text)

\* A variant of the loop of advance that tells the chunk of a new line
\* when the token is on the line after the previous token's, and not when
\* it is further down.
RECURSIVE advance_loop_next_line(_)
advance_loop_next_line(ps) ==
    LET r == scan_token(ps.src, ps.pos)
        next == [ps EXCEPT !.pos = IF ps.pos < Len(ps.src.items) THEN ps.pos + 1 ELSE ps.pos]
    IN IF r.ok
       THEN [next EXCEPT !.current = r,
                         !.chunk = IF r.line = ps.previous.line + 1 THEN new_line(ps.chunk, r.line) ELSE ps.chunk]
       ELSE advance_loop_next_line(scan_error(next, r))

\* The loop of advance: scan until a token is returned.
RECURSIVE advance_loop(_)
advance_loop(ps) ==
    LET r == scan_token(ps.src, ps.pos)
        next == [ps EXCEPT !.pos = IF ps.pos < Len(ps.src.items) THEN ps.pos + 1 ELSE ps.pos]
    IN IF r.ok
       THEN [next EXCEPT !.current = r,
                         !.chunk = IF r.line # ps.previous.line THEN new_line(ps.chunk, r.line) ELSE ps.chunk]
       ELSE advance_loop(scan_error(next, r))

advance(ps) == advance_loop([ps EXCEPT !.previous = ps.current])

check(ps, ty) == ps.current.ty = ty

\* matches: the parser after the call; the result of the call is check(ps, ty).
matches(ps, ty) == IF check(ps, ty) THEN advance(ps) ELSE ps

consume(ps, ty, msg) == IF ps.current.ty = ty THEN advance(ps) ELSE error_at(ps, ps.current, msg)

token_text(ps) == ps.previous.text

\* History: the code units from lo to the end of the chunk were emitted now.
emit_record(ps, lo) ==
    [ps EXCEPT !.dbg.emits = Append(@, [lo |-> lo, hi |-> chunk_len(ps.chunk), line |-> ps.current.line])]

emit_op(ps, op) == emit_record([ps EXCEPT !.chunk = write_op(ps.chunk, op)], chunk_len(ps.chunk))

emit_op_arg(ps, op, arg) == emit_record([ps EXCEPT !.chunk = write_op_arg(ps.chunk, op, arg)], chunk_len(ps.chunk))

\* emit_jump: the parser after the call; the offset returned is the chunk's
\* length before the call.
emit_jump(ps, op) == emit_record([ps EXCEPT !.chunk = write_jump(ps.chunk, op)], chunk_len(ps.chunk))

emit_constant(ps, value) ==
    LET r == add_constant(ps.chunk, value)
    IN IF ~r.ok THEN error(ps, "too many constants in one chunk")
       ELSE emit_record([ps EXCEPT !.chunk = write_op_arg(r.chunk, Op_Constant, r.idx)], chunk_len(ps.chunk))

emit_loop(ps, dest) ==
    LET d0 == chunk_len(ps.chunk) - dest + 1
        delta == IF d0 > 255 THEN d0 + 1 ELSE d0
        p1 == IF delta > 65535 THEN error(ps, "loop body too large") ELSE ps
    IN emit_op_arg(p1, Op_Loop, delta)

\* A variant of patch_jump that reports a delta of 0xFFFF as too large.
patch_jump_below(ps, origin) ==
    LET delta == chunk_len(ps.chunk) - origin - 2
        p1 == IF delta >= 65535 THEN error(ps, "too much code to jump over") ELSE ps
    IN [p1 EXCEPT !.chunk = chunk_patch_jump(p1.chunk, origin, delta % 65536)]

patch_jump(ps, origin) ==
    LET delta == chunk_len(ps.chunk) - origin - 2
        p1 == IF delta > 65535 THEN error(ps, "too much code to jump over") ELSE ps
    IN [p1 EXCEPT !.chunk = chunk_patch_jump(p1.chunk, origin, delta % 65536)]

begin_scope(ps) == [ps EXCEPT !.locals = locals_begin_scope(@), !.dbg.scopes = Append(@, ps.locals.locals)]

\* The history of an end_scope that has taken the parser from ps to p2.
scope_record(ps, p2) ==
    [p2 EXCEPT !.dbg.scopes = SubSeq(@, 1, Len(@) - 1),
               !.dbg.left = Append(@, [begun |-> ps.dbg.scopes[Len(ps.dbg.scopes)],
                                       before |-> ps.locals.locals, after |-> p2.locals.locals,
                                       depth |-> p2.locals.depth,
                                       code |-> SubSeq(p2.chunk.code, chunk_len(ps.chunk) + 1, chunk_len(p2.chunk))])]

end_scope(ps) ==
    LET r == locals_end_scope(ps.locals)
        p1 == [ps EXCEPT !.locals = r.ls]
    IN scope_record(ps, IF r.count = 1 THEN emit_op(p1, Op_Pop)
                        ELSE IF r.count > 1 THEN emit_op_arg(p1, Op_PopN, r.count)
                        ELSE p1)

\* The loop of synchronize.
RECURSIVE synchronize_loop(_)
synchronize_loop(ps) ==
    IF ps.current.ty = "Eof" THEN ps
    ELSE IF ps.previous.ty = "Semicolon" THEN ps
    ELSE IF ps.current.ty \in {"Class", "Fun", "Var", "For", "If", "While", "Print", "Return"} THEN ps
    ELSE synchronize_loop(advance(ps))

synchronize(ps) == synchronize_loop([ps EXCEPT !.panic_mode = FALSE, !.log = Append(@, "S")])

\* str::parse::<f64> on the text of a number token.
ParseF64(text) == CHOOSE n \in 0..99 : ToString(n) = text

number(ps) == emit_constant(ps, ValNumber(ParseF64(token_text(ps))))

\* string: the text between the quotes, raw[1..raw.len() - 1].
string(ps) == emit_constant(ps, ValString(ps.previous.body))

literal(ps) ==
    emit_op(ps, CASE ps.previous.ty = "Nil" -> Op_Nil
                  [] ps.previous.ty = "True" -> Op_True
                  [] ps.previous.ty = "False" -> Op_False)

\* A variant of break_statement that loops to the start of the loop instead
\* of its exit jump: the loop goes on with it.
break_statement_to_start(ps, loop_) ==
    With(consume(ps, "Semicolon", "expect ';' after 'break'"), LAMBDA p1 :
    With(count_to_depth(p1.locals, loop_.depth), LAMBDA n :
    With(emit_loop(emit_op(IF n > 0 THEN emit_op_arg(p1, Op_PopN, n) ELSE p1, Op_False), loop_.loop_start), LAMBDA p3 :
        IF ~loop_.some THEN error(p1, "'break' outside of loop")
        ELSE [p3 EXCEPT !.dbg.breaks = Append(@, [lo |-> chunk_len(p1.chunk), hi |-> chunk_len(p3.chunk)])])))

\* A variant of continue_statement that leaves the locals of the body on the
\* stack.
continue_statement_keep(ps, loop_) ==
    With(consume(ps, "Semicolon", "expect ';' after 'continue'"), LAMBDA p1 :
    With(emit_loop(p1, loop_.loop_start), LAMBDA p3 :
        IF ~loop_.some THEN error(p1, "'continue' outside of loop")
        ELSE [p3 EXCEPT !.dbg.conts = Append(@, [lo |-> chunk_len(p1.chunk), hi |-> chunk_len(p3.chunk)])]))

\* A variant of break_statement that takes a break for one of the loop at
\* offset 0 when it is given no loop.
break_statement_anywhere(ps, loop_) ==
    With(consume(ps, "Semicolon", "expect ';' after 'break'"), LAMBDA p1 :
    With(count_to_depth(p1.locals, loop_.depth), LAMBDA n :
    With(emit_loop(emit_op(IF n > 0 THEN emit_op_arg(p1, Op_PopN, n) ELSE p1, Op_False), loop_.exit_jump), LAMBDA p3 :
        IF ~loop_.some THEN p3
        ELSE [p3 EXCEPT !.dbg.breaks = Append(@, [lo |-> chunk_len(p1.chunk), hi |-> chunk_len(p3.chunk)])])))

\* The instructions of a break or continue statement, after its ';'.
break_statement(ps, loop_) ==
    With(consume(ps, "Semicolon", "expect ';' after 'break'"), LAMBDA p1 :
    With(count_to_depth(p1.locals, loop_.depth), LAMBDA n :
    With(emit_loop(emit_op(IF n > 0 THEN emit_op_arg(p1, Op_PopN, n) ELSE p1, Op_False), loop_.exit_jump), LAMBDA p3 :
        IF ~loop_.some THEN error(p1, "'break' outside of loop")
        ELSE [p3 EXCEPT !.dbg.breaks = Append(@, [lo |-> chunk_len(p1.chunk), hi |-> chunk_len(p3.chunk)])])))

continue_statement(ps, loop_) ==
    With(consume(ps, "Semicolon", "expect ';' after 'continue'"), LAMBDA p1 :
    With(count_to_depth(p1.locals, loop_.depth), LAMBDA n :
    With(emit_loop(IF n > 0 THEN emit_op_arg(p1, Op_PopN, n) ELSE p1, loop_.loop_start), LAMBDA p3 :
        IF ~loop_.some THEN error(p1, "'continue' outside of loop")
        ELSE [p3 EXCEPT !.dbg.conts = Append(@, [lo |-> chunk_len(p1.chunk), hi |-> chunk_len(p3.chunk)])])))

(***************************************************************************)
(* The grammar (parser.rs).  A function of the grammar calls functions of  *)
(* the grammar in the middle of its body, so each call is kept as a record *)
(* on ps.ctl, the call stack of the parser's thread:                       *)
(*   fn      the function called,                                          *)
(*   at      where in its body the call stands (0 at entry; the numbers    *)
(*           after that are the places where a callee returns),            *)
(*   loop_, precedence, can_assign   its arguments,                        *)
(*   the rest are its local variables.                                     *)
(* One function below gives, for a call that stands at `at`, the parser    *)
(* where the call next calls a function of the grammar or returns.         *)
(***************************************************************************)
NewCall(fn, loop_) ==
    [fn |-> fn, at |-> 0, loop_ |-> loop_, precedence |-> Prec_None, can_assign |-> FALSE,
     operator_type |-> "", op |-> 0, arg |-> 0, sym |-> 0, fresh |-> FALSE,
     lo |-> 0, loop_start |-> 0, cond_start |-> 0, exit_jump |-> 0, body_jump |-> 0,
     incr_lo |-> 0, incr_hi |-> 0, body_lo |-> 0, then_jump |-> 0, else_jump |-> 0, end_jump |-> 0,
     test_slot |-> 0, patch_false |-> -1, patch_true |-> <<>>, default |-> FALSE, from |-> 0, seen |-> -1]

\* The call that is running.
here(ps) == ps.ctl[Len(ps.ctl)]

\* Calling fn with the argument loop_, and returning from the running call.
\* `from` is history: the length of the chunk when the call was made.
enter(ps, fn, loop_) == [ps EXCEPT !.ctl = Append(@, [NewCall(fn, loop_) EXCEPT !.from = chunk_len(ps.chunk)])]

\* The functions of the grammar that compile a statement.
StatementFns ==
    {"statement", "var_declaration", "expression_statement", "print_statement", "if_statement",
     "while_statement", "for_statement", "switch_statement"}

\* The record in dbg.stmts of the statement whose call returns, when it has
\* emitted code: the range of the code, and whether it declared a local.
stmt_record(ps) ==
    IF here(ps).fn \in StatementFns /\ chunk_len(ps.chunk) > here(ps).from
    THEN [ps EXCEPT !.dbg.stmts = Append(@, [fn |-> here(ps).fn, lo |-> here(ps).from, hi |-> chunk_len(ps.chunk),
                                             up |-> IF here(ps).fn = "var_declaration" /\ ps.locals.depth > 0
                                                    THEN 1 ELSE 0])]
    ELSE ps

leave(ps) == [stmt_record(ps) EXCEPT !.ctl = SubSeq(@, 1, Len(@) - 1)]

\* The running call goes on as f: its place and its local variables.
stay(ps, f) == [ps EXCEPT !.ctl[Len(ps.ctl)] = f]

\* Calling parse_precedence(precedence) and variable(can_assign).
enter_parse_precedence(ps, precedence) ==
    [ps EXCEPT !.ctl = Append(@, [NewCall("parse_precedence", NoLoop) EXCEPT !.precedence = precedence])]

\* A variant of the call of variable that lets every identifier be assigned
\* to, whatever the precedence it is parsed at.
enter_variable_assignable(ps, can_assign) ==
    [ps EXCEPT !.ctl = Append(@, [NewCall("variable", NoLoop) EXCEPT !.can_assign = TRUE])]

enter_variable(ps, can_assign) ==
    [ps EXCEPT !.ctl = Append(@, [NewCall("variable", NoLoop) EXCEPT !.can_assign = can_assign])]

\* expression is the call of parse_precedence and nothing else.
expression(ps) == enter_parse_precedence(ps, Prec_Assignment)

grouping(ps, f) ==
    CASE f.at = 0 -> expression(stay(ps, [f EXCEPT !.at = 1]))
      [] f.at = 1 -> leave(consume(ps, "RightParen", "expect ')' after expression"))

unary(ps, f) ==
    CASE f.at = 0 -> enter_parse_precedence(stay(ps, [f EXCEPT !.at = 1, !.operator_type = ps.previous.ty]), Prec_Unary)
      [] f.at = 1 -> leave(emit_op(ps, IF f.operator_type = "Minus" THEN Op_Negate ELSE Op_Not))

binary(ps, f) ==
    CASE f.at = 0 ->
           enter_parse_precedence(stay(ps, [f EXCEPT !.at = 1, !.operator_type = ps.previous.ty]),
                                  for_op_type(ps.previous.ty) + 1)
      [] f.at = 1 ->
           leave(CASE f.operator_type = "Plus" -> emit_op(ps, Op_Add)
                   [] f.operator_type = "Minus" -> emit_op(ps, Op_Subtract)
                   [] f.operator_type = "Star" -> emit_op(ps, Op_Multiply)
                   [] f.operator_type = "Slash" -> emit_op(ps, Op_Divide)
                   [] f.operator_type = "EqualEqual" -> emit_op(ps, Op_Equal)
                   [] f.operator_type = "Less" -> emit_op(ps, Op_Less)
                   [] f.operator_type = "Greater" -> emit_op(ps, Op_Greater)
                   [] f.operator_type = "BangEqual" -> emit_op(emit_op(ps, Op_Equal), Op_Not)
                   [] f.operator_type = "GreaterEqual" -> emit_op(emit_op(ps, Op_Less), Op_Not)
                   [] f.operator_type = "LessEqual" -> emit_op(emit_op(ps, Op_Greater), Op_Not))

\* The record of an `and` or `or` in dbg.logic: the offset of its
\* JumpIfFalse and the offset where its code ends.
logic_record(ps, kind, lo) ==
    [ps EXCEPT !.dbg.logic = Append(@, [kind |-> kind, lo |-> lo, hi |-> chunk_len(ps.chunk)])]

\* A variant of and that leaves the left operand on the stack when it goes
\* on to the right operand.
and_keep(ps, f) ==
    CASE f.at = 0 ->
           enter_parse_precedence(stay(emit_jump(ps, Op_JumpIfFalse),
                                       [f EXCEPT !.at = 1, !.end_jump = chunk_len(ps.chunk)]),
                                  Prec_And)
      [] f.at = 1 -> leave(logic_record(patch_jump(ps, f.end_jump), "and", f.end_jump))

and_(ps, f) ==
    CASE f.at = 0 ->
           enter_parse_precedence(stay(emit_op(emit_jump(ps, Op_JumpIfFalse), Op_Pop),
                                       [f EXCEPT !.at = 1, !.end_jump = chunk_len(ps.chunk)]),
                                  Prec_And)
      [] f.at = 1 -> leave(logic_record(patch_jump(ps, f.end_jump), "and", f.end_jump))

\* or: else_jump is the chunk's length at entry (kept in lo).
or_(ps, f) ==
    CASE f.at = 0 ->
           With(emit_jump(ps, Op_JumpIfFalse), LAMBDA p1 :
               enter_parse_precedence(stay(emit_op(patch_jump(emit_jump(p1, Op_Jump), chunk_len(ps.chunk)), Op_Pop),
                                           [f EXCEPT !.at = 1, !.end_jump = chunk_len(p1.chunk),
                                                     !.lo = chunk_len(ps.chunk)]),
                                      Prec_Or))
      [] f.at = 1 -> leave(logic_record(patch_jump(ps, f.end_jump), "or", f.lo))

variable(ps, f) ==
    CASE f.at = 0 ->
           With(intern(ps.symtab, token_text(ps)), LAMBDA r :
           With(resolve(ps.locals, r.sym), LAMBDA res :
           With(IF res.some /\ ~res.is_initialized
                THEN error([ps EXCEPT !.symtab = r.st], "can't read local variable in its own initializer")
                ELSE [ps EXCEPT !.symtab = r.st], LAMBDA p2 :
               IF f.can_assign /\ check(p2, "Equal")
               THEN expression(stay(advance(p2), [f EXCEPT !.at = 1,
                                                           !.op = IF res.some THEN Op_SetLocal ELSE Op_SetGlobal,
                                                           !.arg = IF res.some THEN res.slot ELSE r.sym]))
               ELSE leave(emit_op_arg(p2, IF res.some THEN Op_GetLocal ELSE Op_GetGlobal,
                                      IF res.some THEN res.slot ELSE r.sym)))))
      [] f.at = 1 -> leave(emit_op_arg(ps, f.op, f.arg))

\* parse_precedence: at 1 it stands at the head of its while loop.
parse_precedence(ps, f) ==
    CASE f.at = 0 ->
           With(advance(ps), LAMBDA p1 :
               CASE p1.previous.ty = "LeftParen" -> enter(stay(p1, [f EXCEPT !.at = 1]), "grouping", NoLoop)
                 [] p1.previous.ty \in {"Minus", "Bang"} -> enter(stay(p1, [f EXCEPT !.at = 1]), "unary", NoLoop)
                 [] p1.previous.ty = "Number" -> stay(number(p1), [f EXCEPT !.at = 1])
                 [] p1.previous.ty = "Identifier" ->
                      enter_variable(stay(p1, [f EXCEPT !.at = 1]), f.precedence <= Prec_Assignment)
                 [] p1.previous.ty = "String" -> stay(string(p1), [f EXCEPT !.at = 1])
                 [] p1.previous.ty \in {"Nil", "True", "False"} -> stay(literal(p1), [f EXCEPT !.at = 1])
                 [] OTHER -> leave(error(p1, "expect expression")))
      [] f.at = 1 /\ f.precedence <= for_op_type(ps.current.ty) ->
           With(advance(ps), LAMBDA p1 :
               CASE p1.previous.ty = "And" -> enter(p1, "and_", NoLoop)
                 [] p1.previous.ty = "Or" -> enter(p1, "or_", NoLoop)
                 [] OTHER -> enter(p1, "binary", NoLoop))
      [] f.at = 1 /\ ~(f.precedence <= for_op_type(ps.current.ty)) ->
           IF f.precedence <= Prec_Assignment /\ check(ps, "Equal")
           THEN leave(error(advance(ps), "invalid assignment target"))
           ELSE leave(ps)

\* A variant of expression_statement that leaves the value on the stack.
expression_statement_no_pop(ps, f) ==
    CASE f.at = 0 -> expression(stay(ps, [f EXCEPT !.at = 1]))
      [] f.at = 1 -> leave(consume(ps, "Semicolon", "expect ';' after expression"))

expression_statement(ps, f) ==
    CASE f.at = 0 -> expression(stay(ps, [f EXCEPT !.at = 1]))
      [] f.at = 1 -> leave(emit_op(consume(ps, "Semicolon", "expect ';' after expression"), Op_Pop))

print_statement(ps, f) ==
    CASE f.at = 0 -> expression(stay(ps, [f EXCEPT !.at = 1]))
      [] f.at = 1 -> leave(emit_op(consume(ps, "Semicolon", "expect ';' after value"), Op_Print))

\* var_declaration from the end of its initializer; fresh is what
\* locals.add returned.
var_declaration_end(ps, sym, fresh) ==
    With(consume(ps, "Semicolon", "expect ';' after variable declaration"), LAMBDA p5 :
        IF top_level(p5.locals)
        THEN emit_op_arg(p5, Op_DefineGlobal, sym)
        ELSE [p5 EXCEPT !.locals = mark_initialized(@),
                        !.dbg.decls = Append(@, [at |-> chunk_len(p5.chunk), slot |-> Len(p5.locals.locals) - 1,
                                                 fresh |-> fresh])])

var_declaration(ps, f) ==
    CASE f.at = 0 ->
           With(consume(ps, "Identifier", "expect variable name"), LAMBDA p1 :
           With(intern(p1.symtab, token_text(p1)), LAMBDA r :
           With(locals_add(p1.locals, r.sym), LAMBDA added :
           With(IF top_level(p1.locals) THEN [p1 EXCEPT !.symtab = r.st]
                ELSE IF added.ok THEN [p1 EXCEPT !.symtab = r.st, !.locals = added.ls]
                ELSE error([p1 EXCEPT !.symtab = r.st], "already a variable with this name in this scope"), LAMBDA p3 :
               IF check(p3, "Equal")
               THEN expression(stay(advance(p3), [f EXCEPT !.at = 1, !.sym = r.sym,
                                                           !.fresh = ~top_level(p1.locals) /\ added.ok]))
               ELSE leave(var_declaration_end(emit_op(p3, Op_Nil), r.sym, ~top_level(p1.locals) /\ added.ok))))))
      [] f.at = 1 -> leave(var_declaration_end(ps, f.sym, f.fresh))

\* A variant of block whose loop goes on at Eof.
block_until_brace(ps, f) ==
    IF ~check(ps, "RightBrace")
    THEN enter(ps, "declaration", f.loop_)
    ELSE leave(consume(ps, "RightBrace", "expect '}' after block"))

block(ps, f) ==
    IF ~check(ps, "RightBrace") /\ ~check(ps, "Eof")
    THEN enter(ps, "declaration", f.loop_)
    ELSE leave(consume(ps, "RightBrace", "expect '}' after block"))

if_statement(ps, f) ==
    CASE f.at = 0 -> expression(stay(consume(ps, "LeftParen", "expect '(' after 'if'"), [f EXCEPT !.at = 1]))
      [] f.at = 1 ->
           With(consume(ps, "RightParen", "expect ')' after condition"), LAMBDA p2 :
               enter(stay(emit_op(emit_jump(p2, Op_JumpIfFalse), Op_Pop),
                          [f EXCEPT !.at = 2, !.then_jump = chunk_len(p2.chunk)]),
                     "statement", f.loop_))
      [] f.at = 2 ->
           With(emit_op(patch_jump(emit_jump(ps, Op_Jump), f.then_jump), Op_Pop), LAMBDA p4 :
               IF check(p4, "Else")
               THEN enter(stay(advance(p4), [f EXCEPT !.at = 3, !.else_jump = chunk_len(ps.chunk)]), "statement", f.loop_)
               ELSE leave(patch_jump(p4, chunk_len(ps.chunk))))
      [] f.at = 3 -> leave(patch_jump(ps, f.else_jump))

\* The record of a loop statement in dbg.loops, when the statement ends with
\* the chunk at length hi and its body ended at body_hi.
loop_record(f, body_hi, hi) ==
    [lo |-> f.lo, cond_lo |-> f.cond_start, exit_jump |-> f.exit_jump, incr_lo |-> f.incr_lo, incr_hi |-> f.incr_hi,
     body_lo |-> f.body_lo, body_hi |-> body_hi, hi |-> hi]

while_statement(ps, f) ==
    CASE f.at = 0 ->
           expression(stay(consume(ps, "LeftParen", "expect '(' after 'while'"),
                           [f EXCEPT !.at = 1, !.lo = chunk_len(ps.chunk), !.cond_start = chunk_len(ps.chunk),
                                     !.loop_start = chunk_len(ps.chunk)]))
      [] f.at = 1 ->
           With(consume(ps, "RightParen", "expect ')' after condition"), LAMBDA p2 :
           With(emit_op(emit_jump(p2, Op_JumpIfFalse), Op_Pop), LAMBDA p3 :
               enter(stay(p3, [f EXCEPT !.at = 2, !.exit_jump = chunk_len(p2.chunk),
                                        !.incr_lo = chunk_len(p3.chunk), !.incr_hi = chunk_len(p3.chunk),
                                        !.body_lo = chunk_len(p3.chunk)]),
                     "statement", SomeLoop(p3.locals.depth, f.loop_start, chunk_len(p2.chunk)))))
      [] f.at = 2 ->
           With(emit_op(patch_jump(emit_loop(ps, f.loop_start), f.exit_jump), Op_Pop), LAMBDA p5 :
               leave([p5 EXCEPT !.dbg.loops = Append(@, loop_record(f, chunk_len(ps.chunk), chunk_len(p5.chunk)))]))

\* for_statement: at 1 the initializer clause is done, at 3 the condition
\* clause, at 4 the expression of the increment clause, at 5 the body.  The
\* increment clause is the code from incr_lo to incr_hi, its Loop included.
for_statement(ps, f) ==
    CASE f.at = 0 ->
           With(consume(begin_scope(ps), "LeftParen", "expect '(' after for"), LAMBDA p1 :
               CASE check(p1, "Semicolon") -> stay(advance(p1), [f EXCEPT !.at = 1, !.lo = chunk_len(ps.chunk)])
                 [] check(p1, "Var") ->
                      enter(stay(advance(p1), [f EXCEPT !.at = 1, !.lo = chunk_len(ps.chunk)]), "var_declaration", NoLoop)
                 [] OTHER ->
                      enter(stay(p1, [f EXCEPT !.at = 1, !.lo = chunk_len(ps.chunk)]), "expression_statement", NoLoop))
      [] f.at = 1 ->
           IF check(ps, "Semicolon")
           THEN stay(emit_op(advance(ps), Op_True), [f EXCEPT !.at = 3, !.cond_start = chunk_len(ps.chunk)])
           ELSE expression(stay(ps, [f EXCEPT !.at = 2, !.cond_start = chunk_len(ps.chunk)]))
      [] f.at = 2 -> stay(consume(ps, "Semicolon", "expect ';' after loop condition"), [f EXCEPT !.at = 3])
      [] f.at = 3 ->
           With(emit_op(emit_jump(ps, Op_JumpIfFalse), Op_Pop), LAMBDA p4 :
               IF ~check(p4, "RightParen")
               THEN With(emit_jump(p4, Op_Jump), LAMBDA p5 :
                        expression(stay(p5, [f EXCEPT !.at = 4, !.exit_jump = chunk_len(ps.chunk),
                                                      !.body_jump = chunk_len(p4.chunk),
                                                      !.loop_start = chunk_len(p5.chunk),
                                                      !.incr_lo = chunk_len(p5.chunk)])))
               ELSE With(advance(p4), LAMBDA p8 :
                        enter(stay(p8, [f EXCEPT !.at = 5, !.exit_jump = chunk_len(ps.chunk),
                                                 !.loop_start = f.cond_start,
                                                 !.incr_lo = chunk_len(p8.chunk), !.incr_hi = chunk_len(p8.chunk),
                                                 !.body_lo = chunk_len(p8.chunk)]),
                              "statement", SomeLoop(p8.locals.depth, f.cond_start, chunk_len(ps.chunk)))))
      [] f.at = 4 ->
           With(consume(emit_op(ps, Op_Pop), "RightParen", "expect ')' after loop clauses"), LAMBDA p7 :
           With(patch_jump(emit_loop(p7, f.cond_start), f.body_jump), LAMBDA p8 :
               enter(stay(p8, [f EXCEPT !.at = 5, !.incr_hi = chunk_len(p8.chunk), !.body_lo = chunk_len(p8.chunk)]),
                     "statement", SomeLoop(p8.locals.depth, f.loop_start, f.exit_jump))))
      [] f.at = 5 ->
           With(end_scope(emit_op(patch_jump(emit_loop(ps, f.loop_start), f.exit_jump), Op_Pop)), LAMBDA p11 :
               leave([p11 EXCEPT !.dbg.loops = Append(@, loop_record(f, chunk_len(ps.chunk), chunk_len(p11.chunk)))]))

switch_case(ps, f) ==
    CASE f.at = 0 ->
           IF ~check(ps, "Semicolon") /\ ~check(ps, "Eof")
           THEN enter(stay(ps, [f EXCEPT !.at = 1]), "statement", f.loop_)
           ELSE leave(consume(ps, "Semicolon", "expect ';' after switch case"))
      [] f.at = 1 ->
           IF ps.previous.ty = "Semicolon" THEN leave(ps) ELSE stay(ps, [f EXCEPT !.at = 0])

\* The for loop of switch_statement over patch_true.
RECURSIVE patch_all(_, _)
patch_all(ps, origins) ==
    IF origins = <<>> THEN ps ELSE patch_all(patch_jump(ps, Head(origins)), Tail(origins))

\* switch_statement from the end of its while loop.
switch_end(ps, f) ==
    leave(end_scope(patch_all(consume(ps, "RightBrace", "expect '}' after switch body"), f.patch_true)))

\* switch_statement: at 2 it stands at the head of its while loop, at 3
\* after the expression of a case, at 4 after switch_case.
switch_statement(ps, f) ==
    CASE f.at = 0 ->
           With(consume(begin_scope(ps), "LeftParen", "expect '(' after 'switch'"), LAMBDA p1 :
           With(inject(p1.locals), LAMBDA inj :
               expression(stay([p1 EXCEPT !.locals = inj.ls], [f EXCEPT !.at = 1, !.test_slot = inj.slot]))))
      [] f.at = 1 ->
           stay(consume(consume(ps, "RightParen", "expect ')' after switch expression"),
                        "LeftBrace", "expect '{' before switch body"),
                [f EXCEPT !.at = 2])
      [] f.at = 2 /\ (check(ps, "RightBrace") \/ check(ps, "Eof")) -> switch_end(ps, f)
      [] f.at = 2 /\ ~(check(ps, "RightBrace") \/ check(ps, "Eof")) ->
           With(IF f.patch_false # -1 THEN emit_op(patch_jump(ps, f.patch_false), Op_Pop) ELSE ps, LAMBDA p1 :
               IF ~(check(p1, "Case") \/ check(p1, "Default"))
               THEN switch_end(error(p1, "expect switch case"), f)
               ELSE With(advance(p1), LAMBDA p2 :
                        IF p2.previous.ty = "Default"
                        THEN enter(stay(consume(p2, "Colon", "expect ':' after switch expression"),
                                        [f EXCEPT !.at = 4, !.default = TRUE]),
                                   "switch_case", f.loop_)
                        ELSE expression(stay(emit_op_arg(p2, Op_GetLocal, f.test_slot),
                                             [f EXCEPT !.at = 3, !.default = FALSE]))))
      [] f.at = 3 ->
           With(emit_op(ps, Op_Equal), LAMBDA p3 :
               enter(stay(consume(emit_op(emit_jump(p3, Op_JumpIfFalse), Op_Pop),
                                  "Colon", "expect ':' after switch expression"),
                          [f EXCEPT !.at = 4, !.patch_false = chunk_len(p3.chunk)]),
                     "switch_case", f.loop_))
      [] f.at = 4 ->
           IF f.default
           THEN switch_end(IF ~check(ps, "RightBrace") THEN error(ps, "default case must be the last case") ELSE ps, f)
           ELSE IF ~check(ps, "RightBrace")
           THEN stay(emit_jump(ps, Op_Jump), [f EXCEPT !.at = 2, !.patch_true = Append(@, chunk_len(ps.chunk))])
           ELSE stay(ps, [f EXCEPT !.at = 2])

\* statement: the calls it makes last are made in its place; at 1 it stands
\* after the call of block.
statement(ps, f) ==
    CASE f.at = 1 -> leave(end_scope(ps))
      [] f.at = 0 /\ check(ps, "Print") -> enter(leave(advance(ps)), "print_statement", NoLoop)
      [] f.at = 0 /\ check(ps, "For") -> enter(leave(advance(ps)), "for_statement", NoLoop)
      [] f.at = 0 /\ check(ps, "If") -> enter(leave(advance(ps)), "if_statement", f.loop_)
      [] f.at = 0 /\ check(ps, "While") -> enter(leave(advance(ps)), "while_statement", NoLoop)
      [] f.at = 0 /\ check(ps, "Break") -> leave(break_statement(advance(ps), f.loop_))
      [] f.at = 0 /\ check(ps, "Continue") -> leave(continue_statement(advance(ps), f.loop_))
      [] f.at = 0 /\ check(ps, "Switch") -> enter(leave(advance(ps)), "switch_statement", f.loop_)
      [] f.at = 0 /\ check(ps, "LeftBrace") ->
           enter(stay(begin_scope(advance(ps)), [f EXCEPT !.at = 1]), "block", f.loop_)
      [] OTHER -> enter(leave(ps), "expression_statement", NoLoop)

declaration(ps, f) ==
    CASE f.at = 0 /\ check(ps, "Var") -> enter(stay(advance(ps), [f EXCEPT !.at = 1]), "var_declaration", NoLoop)
      [] f.at = 0 /\ ~check(ps, "Var") -> enter(stay(ps, [f EXCEPT !.at = 1]), "statement", f.loop_)
      [] f.at = 1 -> leave(IF ps.panic_mode THEN synchronize(ps) ELSE ps)

\* The call that is running runs on from where it stands.
run_on(ps) ==
    CASE here(ps).fn = "declaration" -> declaration(ps, here(ps))
      [] here(ps).fn = "statement" -> statement(ps, here(ps))
      [] here(ps).fn = "block" -> block(ps, here(ps))
      [] here(ps).fn = "var_declaration" -> var_declaration(ps, here(ps))
      [] here(ps).fn = "expression_statement" -> expression_statement(ps, here(ps))
      [] here(ps).fn = "print_statement" -> print_statement(ps, here(ps))
      [] here(ps).fn = "if_statement" -> if_statement(ps, here(ps))
      [] here(ps).fn = "while_statement" -> while_statement(ps, here(ps))
      [] here(ps).fn = "for_statement" -> for_statement(ps, here(ps))
      [] here(ps).fn = "switch_statement" -> switch_statement(ps, here(ps))
      [] here(ps).fn = "switch_case" -> switch_case(ps, here(ps))
      [] here(ps).fn = "parse_precedence" -> parse_precedence(ps, here(ps))
      [] here(ps).fn = "grouping" -> grouping(ps, here(ps))
      [] here(ps).fn = "unary" -> unary(ps, here(ps))
      [] here(ps).fn = "binary" -> binary(ps, here(ps))
      [] here(ps).fn = "and_" -> and_(ps, here(ps))
      [] here(ps).fn = "or_" -> or_(ps, here(ps))
      [] here(ps).fn = "variable" -> variable(ps, here(ps))

\* The tokens left to the parser: the current token, unless it is Eof, and
\* what the scanner has not yet scanned.
Remaining(ps) == Len(ps.src.items) - ps.pos + (IF ps.current.ty = "Eof" THEN 0 ELSE 1)

\* The call f stands at the head of a while loop: of block, of
\* switch_statement or of switch_case.
LoopHead(f) ==
    \/ f.fn = "block"
    \/ f.fn = "switch_statement" /\ f.at = 2
    \/ f.fn = "switch_case" /\ f.at = 0

\* History: a call at the head of its loop notes in `seen` the tokens left.
note_turn(ps) ==
    IF LoopHead(here(ps)) THEN [ps EXCEPT !.ctl[Len(ps.ctl)].seen = Remaining(ps)] ELSE ps

\* The running call runs on, to where it next calls a function of the
\* grammar or returns.
resume(ps) == run_on(note_turn(ps))

\* Parser::parse in three parts: up to its loop, the call of declaration in
\* a turn of the loop, and from the end of the loop.
parse_begin(ps) == advance([ps EXCEPT !.chunk = NewChunk])

parse_turn(ps) == enter([ps EXCEPT !.seen = Remaining(ps)], "declaration", NoLoop)

parse_end(ps) == emit_op(advance(ps), Op_Return)

(***************************************************************************)
(* The virtual machine (vm.rs).                                            *)
(*                                                                         *)
(* A function is [name, arity, chunk, dbg]; dbg is the compiler's history  *)
(* of the chunk, which no instruction reads.  A frame is                   *)
(* [func, offset, base].  globals maps symbol ids to values.               *)
(***************************************************************************)
LoxFunction(name, chunk, dbg) == [name |-> name, arity |-> 0, chunk |-> chunk, dbg |-> dbg]

NewFrame(func, base, offset) == [func |-> func, offset |-> offset, base |-> base]

\* HashMap::insert on globals.
globals_insert(g, sym, val) == [x \in DOMAIN g \cup {sym} |-> IF x = sym THEN val ELSE g[x]]

\* Vm::new: the symbol table and the globals after add_native("clock", 0, ..).
InitSymbols == intern(NewSymTable, "clock").st
InitGlobals == globals_insert(<<>>, intern(NewSymTable, "clock").sym, ValBuiltin("clock"))

\* native::clock: the reading of the monotonic clock, one fixed number here.
clock == ValNumber(0)

\* The arity of a builtin (add_native is called for clock alone).
builtin_arity(name) == 0

\* The machine while one instruction runs: the fields an instruction can
\* change, and how it ended:
\*   "next"   the dispatch loop goes on,
\*   "return" Return: the loop is left,
\*   "call"   Call of a function: run_frame returns the new frame (callee),
\*   "error"  a RuntimeError with message msg,
\*   "panic"  the process panics (unwrap on None, index out of range),
\*   "beyond" arithmetic this model of numbers does not cover.
Machine(stack, globals, stdout, ip) ==
    [stack |-> stack, globals |-> globals, stdout |-> stdout, ip |-> ip, how |-> "next", msg |-> "", callee |-> 0]

fail(m, msg) == [m EXCEPT !.how = "error", !.msg = msg]
panic(m) == [m EXCEPT !.how = "panic"]

\* Vec::truncate
truncate(stack, len) == IF len >= Len(stack) THEN stack ELSE SubSeq(stack, 1, len)

\* A variant of Vm::push that refuses a value when the stack holds more than
\* MAX_STACK values.
push_one_more(m, val) ==
    IF Len(m.stack) <= MAX_STACK THEN [m EXCEPT !.stack = Append(@, val)]
    ELSE fail(m, "stack overflow")

\* Vm::push
push(m, val) ==
    IF Len(m.stack) < MAX_STACK THEN [m EXCEPT !.stack = Append(@, val)]
    ELSE fail(m, "stack overflow")

\* Vm::pop, Vm::peek and Vm::poke on a stack that holds enough values (the
\* callers below check that first: the source panics otherwise).
pop(m) == [m EXCEPT !.stack = SubSeq(@, 1, Len(@) - 1)]
peek(m, count) == m.stack[Len(m.stack) - (count + 1) + 1]
poke(m, count, val) == [m EXCEPT !.stack[Len(m.stack) - (count + 1) + 1] = val]

\* A variant of arithmetic_args that checks its right operand alone; the
\* result with a left operand that is no number is nil.
arithmetic_right(m, op) ==
    LET b == peek(m, 0)
        a == peek(m, 1)
        m1 == pop(m)
    IN IF Len(m.stack) < 2 THEN panic(m)
       ELSE IF b.t # "Number" THEN fail(pop(m1), "operands must be numbers")
       ELSE IF a.t # "Number" THEN poke(m1, 0, ValNil)
       ELSE CASE op = Op_Greater -> poke(m1, 0, ValBoolean(a.v > b.v))
              [] op = Op_Less -> poke(m1, 0, ValBoolean(a.v < b.v))
              [] op = Op_Subtract -> poke(m1, 0, ValNumber(a.v - b.v))
              [] op = Op_Multiply -> poke(m1, 0, ValNumber(a.v * b.v))
              [] op = Op_Divide -> IF b.v # 0 /\ a.v % b.v = 0 THEN poke(m1, 0, ValNumber(a.v \div b.v))
                                   ELSE [m1 EXCEPT !.how = "beyond"]

\* arithmetic_args and the closure applied to its result, for the five
\* opcodes that use it.
arithmetic(m, op) ==
    LET b == peek(m, 0)
        a == peek(m, 1)
        m1 == pop(m)
    IN IF Len(m.stack) < 2 THEN panic(m)
       ELSE IF a.t # "Number" \/ b.t # "Number" THEN fail(pop(m1), "operands must be numbers")
       ELSE CASE op = Op_Greater -> poke(m1, 0, ValBoolean(a.v > b.v))
              [] op = Op_Less -> poke(m1, 0, ValBoolean(a.v < b.v))
              [] op = Op_Subtract -> poke(m1, 0, ValNumber(a.v - b.v))
              [] op = Op_Multiply -> poke(m1, 0, ValNumber(a.v * b.v))
              [] op = Op_Divide -> IF b.v # 0 /\ a.v % b.v = 0 THEN poke(m1, 0, ValNumber(a.v \div b.v))
                                   ELSE [m1 EXCEPT !.how = "beyond"]

add(m) ==
    LET b == peek(m, 0)
        a == peek(m, 1)
        m1 == pop(m)
    IN IF Len(m.stack) < 2 THEN panic(m)
       ELSE IF a.t = "Number" /\ b.t = "Number" THEN poke(m1, 0, ValNumber(a.v + b.v))
       ELSE IF a.t = "String" /\ b.t = "String" THEN poke(m1, 0, ValString(a.v \o b.v))
       ELSE fail(pop(m1), "operands must be numbers or strings")

\* A variant of Op::Call whose frame for a function begins above the callee.
call_base_above(m, arg_count) ==
    LET f == peek(m, arg_count)
    IN IF Len(m.stack) < arg_count + 1 THEN panic(m)
       ELSE IF f.t = "Function"
       THEN IF f.v.arity # arg_count
            THEN fail(m, "expected " \o ToString(f.v.arity) \o " arguments but got " \o ToString(arg_count))
            ELSE [m EXCEPT !.how = "call", !.callee = NewFrame(f.v, Len(m.stack) - arg_count, 0)]
       ELSE IF f.t = "Builtin"
       THEN IF builtin_arity(f.v) # arg_count
            THEN fail(m, "expected " \o ToString(builtin_arity(f.v)) \o " arguments but got " \o ToString(arg_count))
            ELSE push([m EXCEPT !.stack = truncate(@, Len(@) - arg_count + 1)], clock)
       ELSE fail(m, "can only call functions or classes")

\* Op::Call
call(m, arg_count) ==
    LET f == peek(m, arg_count)
        mismatch == "expected " \o ToString(f.v.arity) \o " arguments but got " \o ToString(arg_count)
    IN IF Len(m.stack) < arg_count + 1 THEN panic(m)
       ELSE IF f.t = "Function"
       THEN IF f.v.arity # arg_count THEN fail(m, mismatch)
            ELSE [m EXCEPT !.how = "call", !.callee = NewFrame(f.v, Len(m.stack) - arg_count - 1, 0)]
       ELSE IF f.t = "Builtin"
       THEN IF builtin_arity(f.v) # arg_count
            THEN fail(m, "expected " \o ToString(builtin_arity(f.v)) \o " arguments but got " \o ToString(arg_count))
            ELSE push([m EXCEPT !.stack = truncate(@, Len(@) - arg_count + 1)], clock)
       ELSE fail(m, "can only call functions or classes")

\* A variant of Op::DefineGlobal that keeps the binding of a symbol that has
\* one.
define_global_once(m, sym) ==
    IF m.stack = <<>> THEN panic(m)
    ELSE IF sym \in DOMAIN m.globals THEN pop(m)
    ELSE [pop(m) EXCEPT !.globals = globals_insert(@, sym, peek(m, 0))]

\* Op::DefineGlobal
define_global(m, sym) ==
    IF m.stack = <<>> THEN panic(m) ELSE [pop(m) EXCEPT !.globals = globals_insert(@, sym, peek(m, 0))]

\* Op::GetGlobal
get_global(m, st, sym) ==
    IF sym \in DOMAIN m.globals THEN push(m, m.globals[sym])
    ELSE IF sym >= Len(st.names) THEN panic(m)
    ELSE fail(m, "undefined variable '" \o st.names[sym + 1] \o "'")

\* A variant of Op::SetGlobal that binds a symbol that has no binding.
set_global_defining(m, st, sym) ==
    IF m.stack = <<>> THEN panic(m) ELSE [m EXCEPT !.globals = globals_insert(@, sym, peek(m, 0))]

\* Op::SetGlobal
set_global(m, st, sym) ==
    IF m.stack = <<>> THEN panic(m)
    ELSE IF sym \in DOMAIN m.globals THEN [m EXCEPT !.globals = globals_insert(@, sym, peek(m, 0))]
    ELSE IF sym >= Len(st.names) THEN panic(m)
    ELSE fail(m, "undefined variable '" \o st.names[sym + 1] \o "'")

\* One turn of the dispatch loop of run_frame on the instruction inst, which
\* the iterator has already stepped over (m.ip is the offset after it).
dispatch(m, st, chunk, base, inst) ==
    LET op == inst.opcode
        n == Len(m.stack)
        top == peek(m, 0)
        slot == inst.operand + base
    IN CASE op = Op_Nil -> push(m, ValNil)
         [] op = Op_True -> push(m, ValBoolean(TRUE))
         [] op = Op_False -> push(m, ValBoolean(FALSE))
         [] op = Op_Pop -> IF n = 0 THEN panic(m) ELSE pop(m)
         [] op = Op_Print -> IF n = 0 THEN panic(m) ELSE [pop(m) EXCEPT !.stdout = Append(@, Display(top))]
         [] op = Op_Return -> [m EXCEPT !.how = "return"]
         [] op = Op_Not -> IF n = 0 THEN panic(m) ELSE poke(m, 0, ValBoolean(~Truthy(top)))
         [] op = Op_Negate ->
              IF n = 0 THEN panic(m)
              ELSE IF top.t = "Number" THEN poke(m, 0, ValNumber(-top.v))
              ELSE fail(pop(m), "operand must be a number")
         [] op = Op_Equal -> IF n < 2 THEN panic(m) ELSE poke(pop(m), 0, ValBoolean(ValueEq(peek(m, 1), top)))
         [] op \in {Op_Greater, Op_Less, Op_Subtract, Op_Multiply, Op_Divide} -> arithmetic(m, op)
         [] op = Op_Add -> add(m)
         [] op = Op_Constant ->
              IF inst.operand >= Len(chunk.constants) THEN panic(m) ELSE push(m, get_constant(chunk, inst.operand))
         [] op = Op_Call -> call(m, inst.operand)
         [] op = Op_PopN -> IF inst.operand > n THEN panic(m) ELSE [m EXCEPT !.stack = SubSeq(@, 1, n - inst.operand)]
         [] op = Op_DefineGlobal -> define_global(m, inst.operand)
         [] op = Op_GetGlobal -> get_global(m, st, inst.operand)
         [] op = Op_SetGlobal -> set_global(m, st, inst.operand)
         [] op = Op_GetLocal -> IF slot >= n THEN panic(m) ELSE push(m, m.stack[slot + 1])
         [] op = Op_SetLocal -> IF n = 0 \/ slot >= n THEN panic(m) ELSE [m EXCEPT !.stack[slot + 1] = top]
         [] op = Op_JumpIfFalse ->
              IF n = 0 THEN panic(m)
              ELSE IF ~Truthy(top) THEN [m EXCEPT !.ip = @ + inst.operand] ELSE m
         [] op = Op_Jump -> [m EXCEPT !.ip = @ + inst.operand]
         [] op = Op_Loop -> IF inst.operand > m.ip THEN panic(m) ELSE [m EXCEPT !.ip = @ - inst.operand]
         [] op = Op_Nop -> m
         [] OTHER -> fail(m, "unknown opcode " \o ToString(op))

\* RuntimeError::with_line
with_line(msg, line) == "[line " \o ToString(line) \o "] " \o msg

(***************************************************************************)
(* Sources: the texts given to interpret.                                  *)
(***************************************************************************)
\* print 2 + 3 * 4;
SrcPrecedence == <<k("print"), num(2), p("+"), num(3), p("*"), num(4), p(";")>>

\* { var a = "before"; print a;
\*   a = "after"; print a; }
SrcLocal ==
    <<p("{"), k("var"), id("a"), p("="), str("before"), p(";"), k("print"), id("a"), p(";"), NL,
      id("a"), p("="), str("after"), p(";"), k("print"), id("a"), p(";"), p("}")>>

\* var a = 0; while (a < 3) { if (a == 2) break; print a; a = a + 1; }
SrcBreakWhile ==
    <<k("var"), id("a"), p("="), num(0), p(";"), k("while"), p("("), id("a"), p("<"), num(3), p(")"), p("{"),
      k("if"), p("("), id("a"), p("=="), num(2), p(")"), k("break"), p(";"),
      k("print"), id("a"), p(";"), id("a"), p("="), id("a"), p("+"), num(1), p(";"), p("}")>>

\* var a = 0; for (; a < 4; a = a + 1) { var t = 7; if (a == 2) continue; print a; }
SrcContinueFor ==
    <<k("var"), id("a"), p("="), num(0), p(";"),
      k("for"), p("("), p(";"), id("a"), p("<"), num(4), p(";"), id("a"), p("="), id("a"), p("+"), num(1), p(")"), p("{"),
      k("var"), id("t"), p("="), num(7), p(";"),
      k("if"), p("("), id("a"), p("=="), num(2), p(")"), k("continue"), p(";"), k("print"), id("a"), p(";"), p("}")>>

\* var a = 0; while (a < 3) { if (a == 1) { var t; a = 3; continue; } print a; a = a + 1; }
SrcContinueWhile ==
    <<k("var"), id("a"), p("="), num(0), p(";"), k("while"), p("("), id("a"), p("<"), num(3), p(")"), p("{"),
      k("if"), p("("), id("a"), p("=="), num(1), p(")"), p("{"), k("var"), id("t"), p(";"),
      id("a"), p("="), num(3), p(";"), k("continue"), p(";"), p("}"),
      k("print"), id("a"), p(";"), id("a"), p("="), id("a"), p("+"), num(1), p(";"), p("}")>>

\* var a = 0; var b = 0;
\* while (a < 2) { var x = 7; b = 0;
\*   for (; b < 5; b = b + 1) { var y = 8; var z = 9; if (b == 1) break; print b; }
\*   a = a + 1; }
\* print a;
SrcBreakNested ==
    <<k("var"), id("a"), p("="), num(0), p(";"), k("var"), id("b"), p("="), num(0), p(";"), NL,
      k("while"), p("("), id("a"), p("<"), num(2), p(")"), p("{"), k("var"), id("x"), p("="), num(7), p(";"),
      id("b"), p("="), num(0), p(";"), NL,
      k("for"), p("("), p(";"), id("b"), p("<"), num(5), p(";"), id("b"), p("="), id("b"), p("+"), num(1), p(")"), p("{"),
      k("var"), id("y"), p("="), num(8), p(";"), k("var"), id("z"), p("="), num(9), p(";"),
      k("if"), p("("), id("b"), p("=="), num(1), p(")"), k("break"), p(";"), k("print"), id("b"), p(";"), p("}"), NL,
      id("a"), p("="), id("a"), p("+"), num(1), p(";"), p("}"), NL,
      k("print"), id("a"), p(";")>>

\* for (var i = 0; i < 3; i = i + 1) { if (i == 2) break; print i; }
SrcBreakFor ==
    <<k("for"), p("("), k("var"), id("i"), p("="), num(0), p(";"), id("i"), p("<"), num(3), p(";"),
      id("i"), p("="), id("i"), p("+"), num(1), p(")"), p("{"),
      k("if"), p("("), id("i"), p("=="), num(2), p(")"), k("break"), p(";"), k("print"), id("i"), p(";"), p("}")>>

\* var g = 1;
SrcDefine == <<k("var"), id("g"), p("="), num(1), p(";")>>

\* print g;
\* g = g + 1;
SrcUse == <<k("print"), id("g"), p(";"), NL, id("g"), p("="), id("g"), p("+"), num(1), p(";")>>

\* print "x";
\* "1" - 1;
SrcTypeError == <<k("print"), str("x"), p(";"), NL, str("1"), p("-"), num(1), p(";")>>

\* (a) = "value";
SrcBadTarget == <<p("("), id("a"), p(")"), p("="), str("value"), p(";")>>

\* print 1;
\* for (var a = 1; {}; a = a + 1) {}
SrcStatementCondition ==
    <<k("print"), num(1), p(";"), NL,
      k("for"), p("("), k("var"), id("a"), p("="), num(1), p(";"), p("{"), p("}"), p(";"),
      id("a"), p("="), id("a"), p("+"), num(1), p(")"), p("{"), p("}")>>

\* var g = 5; print g; @ print );
SrcBadChar == <<k("var"), id("g"), p("="), num(5), p(";"), k("print"), id("g"), p(";"), bad("@"), k("print"), p(")"), p(";")>>

\* switch (1) { case 1: print 1; }
SrcSwitch ==
    <<k("switch"), p("("), num(1), p(")"), p("{"), k("case"), num(1), p(":"), k("print"), num(1), p(";"), p("}")>>

\* if (true) break;
SrcBreakOutside == <<k("if"), p("("), k("true"), p(")"), k("break"), p(";")>>

\* print 1;
\* { if (true) continue; }
SrcContinueOutside ==
    <<k("print"), num(1), p(";"), NL,
      p("{"), k("if"), p("("), k("true"), p(")"), k("continue"), p(";"), p("}")>>

\* var a = "outer";
\* { var a = "inner"; print a; }
\* print a;
SrcScope ==
    <<k("var"), id("a"), p("="), str("outer"), p(";"), NL,
      p("{"), k("var"), id("a"), p("="), str("inner"), p(";"), k("print"), id("a"), p(";"), p("}"), NL,
      k("print"), id("a"), p(";")>>

\* { var a = "local";
\*   { var a = "shadow"; print a; }
\*   print a; }
SrcShadowLocal ==
    <<p("{"), k("var"), id("a"), p("="), str("local"), p(";"), NL,
      p("{"), k("var"), id("a"), p("="), str("shadow"), p(";"), k("print"), id("a"), p(";"), p("}"), NL,
      k("print"), id("a"), p(";"), p("}")>>

\* {
\*   var a = "value";
\*   var a = "other";
\* }
SrcDuplicateLocal ==
    <<p("{"), NL, k("var"), id("a"), p("="), str("value"), p(";"), NL,
      k("var"), id("a"), p("="), str("other"), p(";"), NL, p("}")>>

\* { var a = "first"; print a; }
\* { var a = "second"; print a; }
SrcScopeReuse ==
    <<p("{"), k("var"), id("a"), p("="), str("first"), p(";"), k("print"), id("a"), p(";"), p("}"), NL,
      p("{"), k("var"), id("a"), p("="), str("second"), p(";"), k("print"), id("a"), p(";"), p("}")>>

\* var a = "outer";
\* {
\*   var a = a;
\* }
SrcUseLocalInInitializer ==
    <<k("var"), id("a"), p("="), str("outer"), p(";"), NL, p("{"), NL,
      k("var"), id("a"), p("="), id("a"), p(";"), NL, p("}")>>

\* { var a = "outer"; { var a = a; } }
SrcUseOuterLocalInInitializer ==
    <<p("{"), k("var"), id("a"), p("="), str("outer"), p(";"),
      p("{"), k("var"), id("a"), p("="), id("a"), p(";"), p("}"), p("}")>>

\* var a = "value";
\* var a = a;
\* print a;
SrcUseGlobalInInitializer ==
    <<k("var"), id("a"), p("="), str("value"), p(";"), NL,
      k("var"), id("a"), p("="), id("a"), p(";"), NL, k("print"), id("a"), p(";")>>

\* a + b = "value";
SrcInfixTarget == <<id("a"), p("+"), id("b"), p("="), str("value"), p(";")>>

\* print 1;
\* !a = "value";
SrcPrefixTarget == <<k("print"), num(1), p(";"), NL, p("!"), id("a"), p("="), str("value"), p(";")>>

\* var a = "before";
\* print a = "arg";
\* print a;
\* unknown = "what";
SrcAssignGlobal ==
    <<k("var"), id("a"), p("="), str("before"), p(";"), NL,
      k("print"), id("a"), p("="), str("arg"), p(";"), NL,
      k("print"), id("a"), p(";"), NL,
      id("unknown"), p("="), str("what"), p(";")>>

\* var a = "1";
\* var a = "2";
\* print a;
\* var a;
\* print a;
SrcRedefineGlobal ==
    <<k("var"), id("a"), p("="), str("1"), p(";"), NL,
      k("var"), id("a"), p("="), str("2"), p(";"), NL,
      k("print"), id("a"), p(";"), NL,
      k("var"), id("a"), p(";"), NL,
      k("print"), id("a"), p(";")>>

\* print false and 1;
\* print 1 and 2 and false;
\* var a = "before"; var b = "before";
\* (a = true) and (b = false) and (a = "bad");
\* print a; print b;
SrcAnd ==
    <<k("print"), k("false"), k("and"), num(1), p(";"), NL,
      k("print"), num(1), k("and"), num(2), k("and"), k("false"), p(";"), NL,
      k("var"), id("a"), p("="), str("before"), p(";"), k("var"), id("b"), p("="), str("before"), p(";"), NL,
      p("("), id("a"), p("="), k("true"), p(")"), k("and"), p("("), id("b"), p("="), k("false"), p(")"), k("and"),
      p("("), id("a"), p("="), str("bad"), p(")"), p(";"), NL,
      k("print"), id("a"), p(";"), k("print"), id("b"), p(";")>>

\* print 1 or true;
\* print nil or false or 2;
\* var a = "before"; var b = "before";
\* (a = false) or (b = true) or (a = "bad");
\* print a; print b;
SrcOr ==
    <<k("print"), num(1), k("or"), k("true"), p(";"), NL,
      k("print"), k("nil"), k("or"), k("false"), k("or"), num(2), p(";"), NL,
      k("var"), id("a"), p("="), str("before"), p(";"), k("var"), id("b"), p("="), str("before"), p(";"), NL,
      p("("), id("a"), p("="), k("false"), p(")"), k("or"), p("("), id("b"), p("="), k("true"), p(")"), k("or"),
      p("("), id("a"), p("="), str("bad"), p(")"), p(";"), NL,
      k("print"), id("a"), p(";"), k("print"), id("b"), p(";")>>

\* print -2 * 3;
\* print true or false and false;
\* print nil and 1 == 1;
\* print false == 2 < 1;
\* print 1 < 2 + 3;
\* print 20 - 3 * 4;
\* print -1 + 2;
\* print !1 == true;
\* print 7 - 2 - 1;
\* print 8 / 4 / 2;
\* print 1 == 1 == true;
SrcGrouping ==
    <<k("print"), p("-"), num(2), p("*"), num(3), p(";"), NL,
      k("print"), k("true"), k("or"), k("false"), k("and"), k("false"), p(";"), NL,
      k("print"), k("nil"), k("and"), num(1), p("=="), num(1), p(";"), NL,
      k("print"), k("false"), p("=="), num(2), p("<"), num(1), p(";"), NL,
      k("print"), num(1), p("<"), num(2), p("+"), num(3), p(";"), NL,
      k("print"), num(20), p("-"), num(3), p("*"), num(4), p(";"), NL,
      k("print"), p("-"), num(1), p("+"), num(2), p(";"), NL,
      k("print"), p("!"), num(1), p("=="), k("true"), p(";"), NL,
      k("print"), num(7), p("-"), num(2), p("-"), num(1), p(";"), NL,
      k("print"), num(8), p("/"), num(4), p("/"), num(2), p(";"), NL,
      k("print"), num(1), p("=="), num(1), p("=="), k("true"), p(";")>>

\* var a = "a"; var b = "b"; var c = "c";
\* a = b = c;
\* print a; print b; print c;
SrcAssociativity ==
    <<k("var"), id("a"), p("="), str("a"), p(";"), k("var"), id("b"), p("="), str("b"), p(";"),
      k("var"), id("c"), p("="), str("c"), p(";"), NL,
      id("a"), p("="), id("b"), p("="), id("c"), p(";"), NL,
      k("print"), id("a"), p(";"), k("print"), id("b"), p(";"), k("print"), id("c"), p(";")>>

\* print clock();
SrcCall == <<k("print"), id("clock"), p("("), p(")"), p(";")>>

\*
\* // Tests that we correctly track the line info across multiline strings.
\* var a = "1
\* 2
\* 3
\* ";
\*
\* err;
\*
SrcErrorAfterMultiline ==
    <<NL, NL, k("var"), id("a"), p("="), mstr("1 2 3 ", 3), p(";"), NL, NL, id("err"), p(";"), NL>>

\* print 1;
\* -"x"
\* ;
SrcErrorBeforeNewline == <<k("print"), num(1), p(";"), NL, p("-"), str("x"), NL, p(";")>>

\* if (true) print 1; else print 2;
\* if (false) print 3; else print 4;
SrcIfElse ==
    <<k("if"), p("("), k("true"), p(")"), k("print"), num(1), p(";"), k("else"), k("print"), num(2), p(";"), NL,
      k("if"), p("("), k("false"), p(")"), k("print"), num(3), p(";"), k("else"), k("print"), num(4), p(";")>>

\* switch (1) { case 2: print 2; }
\* print 3;
SrcSwitchNoMatch ==
    <<k("switch"), p("("), num(1), p(")"), p("{"), k("case"), num(2), p(":"), k("print"), num(2), p(";"), p("}"), NL,
      k("print"), num(3), p(";")>>

Sources ==
    <<SrcPrecedence, SrcLocal, SrcBreakWhile, SrcContinueFor, SrcContinueWhile, SrcBreakNested, SrcBreakFor,
      SrcDefine, SrcUse, SrcTypeError, SrcBadTarget, SrcStatementCondition, SrcBadChar, SrcSwitch, SrcBreakOutside,
      SrcContinueOutside, SrcScope, SrcShadowLocal,
      SrcDuplicateLocal, SrcScopeReuse, SrcUseLocalInInitializer, SrcUseOuterLocalInInitializer,
      SrcUseGlobalInInitializer, SrcInfixTarget, SrcPrefixTarget,
      SrcAssignGlobal, SrcRedefineGlobal, SrcAnd, SrcOr,
      SrcGrouping, SrcAssociativity, SrcCall, SrcErrorAfterMultiline, SrcErrorBeforeNewline,
      SrcIfElse, SrcSwitchNoMatch>>

\* The sources of the calls that follow the first call on a VM.
LaterSources == <<SrcDefine, SrcUse, SrcTypeError, SrcBadChar>>

\* The number of interpret calls made on one VM, and the number of
\* instructions one call may run.
MaxCalls == 2
MaxSteps == 150

\* The bound on the steps of the parser in a call.
MaxParseSteps == 300

(***************************************************************************)
(* State.                                                                  *)
(*   The VM (struct Vm): stdout, stderr, frames, stack, globals, symbols.  *)
(*   One interpret call: pc is where the call stands ("idle" between       *)
(*   calls, "parsing" in the loop of Parser::parse, "running" in the       *)
(*   dispatch loop, "panic" when the process has panicked, "beyond" when   *)
(*   it left what the model covers); parser is the call's Parser; current  *)
(*   is the variable of that name in Vm::run, ip the offset of the         *)
(*   iterator in run_frame; result is what the last call returned.         *)
(*   calls counts calls on the VM; steps counts the steps of the parser    *)
(*   while a call parses and its instructions while it runs.               *)
(*   History, read by no action's guard or effect on the above:            *)
(*   localv  slot -> the value last stored in the local of that slot by    *)
(*           its initializer or an assignment,                             *)
(*   entryH  offset of a loop statement -> stack height when it was        *)
(*           entered; offset of the JumpIfFalse of an `and` or `or` ->     *)
(*           stack height when it was last reached,                        *)
(*   iterH   offset of a loop body -> stack height when it was last        *)
(*           entered,                                                      *)
(*   brk     the break statement that was executed last, until the first   *)
(*           instruction after its loop runs,                              *)
(*   cont    the continue statement that was executed last, until the      *)
(*           condition of its loop runs; next is the offset at which       *)
(*           control left the statement (-1 while it is inside).           *)
(*   A chunk written through the Chunk API directly: chunk, and written,   *)
(*   the calls made on it.                                                 *)
(*   interned: the calls of Vm::get_symbol made on the VM directly, each   *)
(*   with the identifier given and the symbol returned.                    *)
(*   scanner: a Scanner called directly, sc, and the tokens that its       *)
(*   scan_token calls have returned.                                       *)
(***************************************************************************)
VARIABLES pc, parser, stdout, stderr, frames, stack, globals, symbols, current, ip, result, calls, steps,
          localv, entryH, iterH, brk, cont, chunk, written, interned, scanner

vmVars == <<pc, parser, stdout, stderr, frames, stack, globals, symbols, current, ip, result, calls, steps>>
histVars == <<localv, entryH, iterH, brk, cont>>
chunkVars == <<chunk, written>>
symVars == <<interned>>
scanVars == <<scanner>>
vars == <<pc, parser, stdout, stderr, frames, stack, globals, symbols, current, ip, result, calls, steps,
          localv, entryH, iterH, brk, cont, chunk, written, interned, scanner>>

NoParser == NewParser(Scan(<<>>), <<>>, NewSymTable)
NoBreak == [on |-> FALSE, lo |-> 0, hi |-> 0, loop |-> 0]
NoContinue == [on |-> FALSE, lo |-> 0, hi |-> 0, loop |-> 0, next |-> -1]

\* f with x mapped to val.
Put(f, x, val) == [y \in DOMAIN f \cup {x} |-> IF y = x THEN val ELSE f[y]]

InRange(off, lo, hi) == lo <= off /\ off < hi

SeqRange(seq) == {seq[i] : i \in DOMAIN seq}

\* n values, all nil.
Nils(n) == [i \in 1..n |-> ValNil]

\* The loop whose body holds the offset off and that holds no other such loop.
EnclosingLoops(dbg, off) == {l \in SeqRange(dbg.loops) : InRange(off, l.body_lo, l.body_hi)}
InnermostLoop(dbg, off) == CHOOSE l \in EnclosingLoops(dbg, off) : \A o \in EnclosingLoops(dbg, off) : o.body_lo <= l.body_lo

VmInit ==
    /\ pc = "idle"
    /\ parser = NoParser
    /\ stdout = <<>>
    /\ stderr = <<>>
    /\ frames = <<>>
    /\ stack = <<>>
    /\ globals = InitGlobals
    /\ symbols = InitSymbols
    /\ current = 0
    /\ ip = 0
    /\ result = [kind |-> "none", msg |-> ""]
    /\ calls = 0
    /\ steps = 0
    /\ localv = <<>>
    /\ entryH = <<>>
    /\ iterH = <<>>
    /\ brk = NoBreak
    /\ cont = NoContinue

ChunkInit ==
    /\ chunk = NewChunk
    /\ written = <<>>
    /\ interned = <<>>
    /\ scanner = [sc |-> NewScanner(<<>>), tokens |-> <<>>]

Init == VmInit /\ ChunkInit

\* Vm::interpret up to the loop of Parser::parse.
Interpret(source) ==
    /\ pc = "idle"
    /\ calls < MaxCalls
    /\ LET ps == parse_begin(NewParser(Scan(source), stderr, symbols))
       IN /\ parser' = ps
          /\ stderr' = ps.stderr
          /\ symbols' = ps.symtab
    /\ pc' = "parsing"
    /\ calls' = calls + 1
    /\ steps' = 0
    /\ result' = [kind |-> "none", msg |-> ""]
    /\ UNCHANGED <<stdout, frames, stack, globals, current, ip>>
    /\ UNCHANGED histVars
    /\ UNCHANGED chunkVars
    /\ UNCHANGED symVars
    /\ UNCHANGED scanVars

\* A turn of the loop of Parser::parse begins: declaration is called.
ParseTurn ==
    /\ pc = "parsing"
    /\ parser.ctl = <<>>
    /\ ~check(parser, "Eof")
    /\ steps < MaxParseSteps
    /\ steps' = steps + 1
    /\ LET ps == parse_turn(parser)
       IN /\ parser' = ps
          /\ stderr' = ps.stderr
          /\ symbols' = ps.symtab
    /\ UNCHANGED <<pc, stdout, frames, stack, globals, current, ip, result, calls>>
    /\ UNCHANGED histVars
    /\ UNCHANGED chunkVars
    /\ UNCHANGED symVars
    /\ UNCHANGED scanVars

\* The declaration of the turn runs on, to the next call or return of a
\* statement function.
ParseStep ==
    /\ pc = "parsing"
    /\ parser.ctl # <<>>
    /\ steps < MaxParseSteps
    /\ steps' = steps + 1
    /\ LET ps == resume(parser)
       IN /\ parser' = ps
          /\ stderr' = ps.stderr
          /\ symbols' = ps.symtab
    /\ UNCHANGED <<pc, stdout, frames, stack, globals, current, ip, result, calls>>
    /\ UNCHANGED histVars
    /\ UNCHANGED chunkVars
    /\ UNCHANGED symVars
    /\ UNCHANGED scanVars

\* A variant of the result of Parser::parse that is Some(chunk) whatever
\* had_error says: a script with compile errors runs with it.
parse_result_always(ps) == [some |-> TRUE, chunk |-> ps.chunk]

\* What Parser::parse returns: Some(chunk) or None.
parse_result(ps) == [some |-> ~ps.had_error, chunk |-> ps.chunk]

\* Vm::run up to its loop: the script's frame and the callee slot.
run_begin(fs, script) == Append(fs, NewFrame(script, 0, 0))

\* The end of Parser::parse and, in Vm::interpret, the match on its result:
\* run the script, up to the first call of run_frame, or return Ok.
ParseEnd ==
    /\ pc = "parsing"
    /\ parser.ctl = <<>>
    /\ check(parser, "Eof")
    /\ LET ps == parse_end(parser)
           r == parse_result(ps)
           fs == run_begin(frames, LoxFunction("<script>", r.chunk, ps.dbg))
           dbg == fs[1].func.dbg
       IN /\ parser' = ps
          /\ stderr' = ps.stderr
          /\ symbols' = ps.symtab
          /\ IF r.some
             THEN /\ frames' = fs
                  /\ stack' = Append(stack, ValNil)
                  /\ current' = 0
                  /\ ip' = fs[1].offset
                  /\ pc' = "running"
                  /\ result' = result
                  /\ localv' = <<>>
                  /\ entryH' = IF \E l \in SeqRange(dbg.loops) \cup SeqRange(dbg.stmts) : l.lo = fs[1].offset
                               THEN Put(<<>>, fs[1].offset, Len(stack) + 1) ELSE <<>>
                  /\ iterH' = <<>>
                  /\ brk' = NoBreak
                  /\ cont' = NoContinue
             ELSE /\ pc' = "idle"
                  /\ result' = [kind |-> "Ok", msg |-> ""]
                  /\ UNCHANGED <<frames, stack, current, ip>>
                  /\ UNCHANGED histVars
    /\ steps' = 0
    /\ UNCHANGED <<stdout, globals, calls>>
    /\ UNCHANGED chunkVars
    /\ UNCHANGED symVars
    /\ UNCHANGED scanVars

\* Ok(None) in the loop of Vm::run: the frame stack and the value stack
\* after it, and whether run returns.
frame_done(fs, st, cur) ==
    LET frame == fs[Len(fs)]
        res == st[Len(st)]
        cut == truncate(SubSeq(st, 1, Len(st) - 1), frame.base)
    IN [frames |-> SubSeq(fs, 1, Len(fs) - 1),
        stack |-> IF cur = 0 THEN cut ELSE Append(cut, res),
        done |-> cur = 0]

\* The history after the instruction inst at offset ip has run, leaving the
\* machine as m.
HistLocalv(dbg, inst, m) ==
    LET set == IF inst.opcode = Op_SetLocal THEN Put(localv, inst.operand, peek(m, 0)) ELSE localv
        ds == {d \in SeqRange(dbg.decls) : d.at = m.ip}
    IN IF inst.opcode # Op_Loop /\ ds # {} /\ m.stack # <<>>
       THEN Put(set, (CHOOSE d \in ds : TRUE).slot, peek(m, 0))
       ELSE set

HistEntryH(dbg, m) ==
    LET ls == {l \in SeqRange(dbg.loops) : l.lo = m.ip /\ ~InRange(ip, l.lo, l.hi)}
        js == {j \in SeqRange(dbg.logic) : j.lo = m.ip}
        ss == {x \in SeqRange(dbg.stmts) : x.lo = m.ip /\ ~InRange(ip, x.lo, x.hi)}
    IN IF ls # {} \/ js # {} \/ ss # {} THEN Put(entryH, m.ip, Len(m.stack)) ELSE entryH

HistIterH(dbg, m) ==
    IF \E l \in SeqRange(dbg.loops) : l.body_lo = m.ip THEN Put(iterH, m.ip, Len(m.stack)) ELSE iterH

HistBrk(dbg, m) ==
    LET bs == {b \in SeqRange(dbg.breaks) : b.lo = ip}
        b == CHOOSE x \in bs : TRUE
    IN IF bs # {} THEN [on |-> TRUE, lo |-> b.lo, hi |-> b.hi, loop |-> InnermostLoop(dbg, b.lo)]
       ELSE IF brk.on /\ ip = brk.loop.hi THEN NoBreak
       ELSE brk

HistCont(dbg, m) ==
    LET cs == {c \in SeqRange(dbg.conts) : c.lo = ip}
        c == CHOOSE x \in cs : TRUE
    IN IF cs # {}
       THEN [on |-> TRUE, lo |-> c.lo, hi |-> c.hi, loop |-> InnermostLoop(dbg, c.lo),
             next |-> IF InRange(m.ip, c.lo, c.hi) THEN -1 ELSE m.ip]
       ELSE IF cont.on /\ cont.next = -1
       THEN [cont EXCEPT !.next = IF InRange(m.ip, cont.lo, cont.hi) THEN -1 ELSE m.ip]
       ELSE IF cont.on /\ ip = cont.loop.cond_lo THEN NoContinue
       ELSE cont

\* One turn of the dispatch loop of run_frame, with what Vm::run does when
\* run_frame returns.
Step ==
    /\ pc = "running"
    /\ steps < MaxSteps
    /\ steps' = steps + 1
    /\ LET fr == frames[current + 1]
           code == fr.func.chunk
           dbg == fr.func.dbg
           at_end == ip >= chunk_len(code)
           inst == get_instruction(code, ip)
           m == dispatch(Machine(stack, globals, stdout, ip + inst.len), symbols, code, fr.base, inst)
           how == IF at_end THEN "return" ELSE m.how
           fd == frame_done(frames, stack, current)
           saved == [frames EXCEPT ![current + 1].offset = m.ip]
       IN CASE how = "next" ->
                 /\ stack' = m.stack
                 /\ globals' = m.globals
                 /\ stdout' = m.stdout
                 /\ ip' = m.ip
                 /\ localv' = HistLocalv(dbg, inst, m)
                 /\ entryH' = HistEntryH(dbg, m)
                 /\ iterH' = HistIterH(dbg, m)
                 /\ brk' = HistBrk(dbg, m)
                 /\ cont' = HistCont(dbg, m)
                 /\ UNCHANGED <<pc, frames, current, result>>
            [] how = "return" /\ stack = <<>> ->
                 /\ pc' = "panic"
                 /\ UNCHANGED <<stack, globals, stdout, ip, frames, current, result>>
                 /\ UNCHANGED histVars
            [] how = "return" /\ stack # <<>> ->
                 /\ frames' = fd.frames
                 /\ stack' = fd.stack
                 /\ IF fd.done
                    THEN /\ pc' = "idle"
                         /\ result' = [kind |-> "Ok", msg |-> ""]
                         /\ UNCHANGED <<current, ip>>
                    ELSE /\ current' = current - 1
                         /\ ip' = fd.frames[current].offset
                         /\ UNCHANGED <<pc, result>>
                 /\ localv' = <<>>
                 /\ brk' = NoBreak
                 /\ cont' = NoContinue
                 /\ UNCHANGED <<globals, stdout, entryH, iterH>>
            [] how = "call" ->
                 /\ frames' = Append(saved, m.callee)
                 /\ current' = current + 1
                 /\ ip' = Append(saved, m.callee)[current + 2].offset
                 /\ localv' = <<>>
                 /\ brk' = NoBreak
                 /\ cont' = NoContinue
                 /\ UNCHANGED <<pc, stack, globals, stdout, result, entryH, iterH>>
            [] how = "error" ->
                 /\ stack' = <<>>
                 /\ result' = [kind |-> "Err", msg |-> with_line(m.msg, get_line(code, m.ip - inst.len))]
                 /\ pc' = "idle"
                 /\ globals' = m.globals
                 /\ stdout' = m.stdout
                 /\ brk' = NoBreak
                 /\ cont' = NoContinue
                 /\ UNCHANGED <<frames, current, ip, localv, entryH, iterH>>
            [] how \in {"panic", "beyond"} ->
                 /\ pc' = how
                 /\ UNCHANGED <<stack, globals, stdout, ip, frames, current, result>>
                 /\ UNCHANGED histVars
    /\ UNCHANGED <<parser, stderr, symbols, calls>>
    /\ UNCHANGED chunkVars
    /\ UNCHANGED symVars
    /\ UNCHANGED scanVars

Next ==
    \/ \E i \in DOMAIN Sources : calls = 0 /\ Interpret(Sources[i])
    \/ \E i \in DOMAIN LaterSources : calls > 0 /\ Interpret(LaterSources[i])
    \/ ParseTurn
    \/ ParseStep
    \/ ParseEnd
    \/ Step

Spec == Init /\ [][Next]_vars

(***************************************************************************)
(* The operators of the dispatch loop on operands of every type, Call on   *)
(* callees of every type and the instructions that push: run_frame on a    *)
(* chunk of one instruction, entered with two values on the stack above    *)
(* the callee, or with a stack that is full or one value short of it.      *)
(***************************************************************************)
OperandOps == {Op_Not, Op_Negate, Op_Equal, Op_Greater, Op_Less, Op_Add, Op_Subtract, Op_Multiply, Op_Divide}

\* The largest argument count of the Call instructions that are run.
MaxArgs == 2

\* The instructions that push a value and take none.
PushOps == {Op_Nil, Op_True, Op_False}

\* The chunks of one instruction: an operator, a push, GetLocal of the
\* callee's slot, or Call(argc).
OpsChunks ==
    {write_op(NewChunk, op) : op \in OperandOps \cup PushOps}
    \cup {write_op_arg(NewChunk, Op_GetLocal, 0)}
    \cup {write_op_arg(NewChunk, Op_Call, argc) : argc \in 0..MaxArgs}

Operands ==
    {ValNil, ValBoolean(TRUE), ValBoolean(FALSE), ValNumber(0), ValNumber(2), ValNumber(6),
     ValString(""), ValString("a"), ValBuiltin("clock")}

\* The chunks of the functions that are called: no instruction, an
\* instruction that pushes, and one that pushes before a Return.
FnBodies == {NewChunk, write_op(NewChunk, Op_True), write_op(write_op(NewChunk, Op_False), Op_Return)}

\* Functions of every arity up to MaxArgs (the compiler makes none; the
\* fields are those of LoxFunction).
Functions == {[LoxFunction("f", c, NewDbg) EXCEPT !.arity = n] : c \in FnBodies, n \in 0..MaxArgs}

\* Stacks of three values with one function among them.
FnStacks ==
    UNION {{<<ValFunction(f), a, b>>, <<ValNil, ValFunction(f), a>>, <<ValNil, a, ValFunction(f)>>} :
              f \in Functions, a \in {ValNil, ValNumber(2)}, b \in {ValString("a")}}

\* The stacks the instruction is run on: the callee and two values, and the
\* stacks of MAX_STACK - 1 and MAX_STACK values.
OpsStacks ==
    {<<ValNil, a, b>> : a \in Operands, b \in Operands} \cup {Nils(MAX_STACK - 1), Nils(MAX_STACK)} \cup FnStacks

InitOps ==
    /\ pc = "running"
    /\ parser = NoParser
    /\ stdout = <<>>
    /\ stderr = <<>>
    /\ \E c \in OpsChunks : frames = run_begin(<<>>, LoxFunction("<script>", c, NewDbg))
    /\ stack \in OpsStacks
    /\ globals = InitGlobals
    /\ symbols = InitSymbols
    /\ current = 0
    /\ ip = 0
    /\ result = [kind |-> "none", msg |-> ""]
    /\ calls = 1
    /\ steps = 0
    /\ localv = <<>>
    /\ entryH = <<>>
    /\ iterH = <<>>
    /\ brk = NoBreak
    /\ cont = NoContinue
    /\ ChunkInit

SpecOps == InitOps /\ [][Step]_vars

(***************************************************************************)
(* The Chunk API called directly (code.rs): any MaxWrites calls of         *)
(* write_op, write_op_arg and write_jump, and patch_jump on a jump that    *)
(* was written.  written keeps, for each call, the offset at which it      *)
(* began, its arguments and the number of code units it added.             *)
(***************************************************************************)
MaxWrites == 2

\* The opcodes and operands the calls are made with.
ZeroOps == {Op_Nil, Op_Nop}
ArgOps == Op_Constant..Op_Call
Args == {0, 255, 256, 32768, 65535, 65536, 8388608, 16777215}
Deltas == {0, 255, 256, 65535}

Written(api, c, op, arg, after) ==
    [call |-> api, offset |-> chunk_len(c), op |-> op, arg |-> arg, units |-> chunk_len(after) - chunk_len(c)]

WriteOp(op) ==
    /\ Len(written) < MaxWrites
    /\ op < Op_Constant
    /\ chunk' = write_op(chunk, op)
    /\ written' = Append(written, Written("write_op", chunk, op, 0, write_op(chunk, op)))
    /\ UNCHANGED vmVars
    /\ UNCHANGED histVars
    /\ UNCHANGED symVars
    /\ UNCHANGED scanVars

WriteOpArg(op, arg) ==
    /\ Len(written) < MaxWrites
    /\ op >= Op_Constant
    /\ chunk' = write_op_arg(chunk, op, arg)
    /\ written' = Append(written, Written("write_op_arg", chunk, op, arg, write_op_arg(chunk, op, arg)))
    /\ UNCHANGED vmVars
    /\ UNCHANGED histVars
    /\ UNCHANGED symVars
    /\ UNCHANGED scanVars

WriteJump(op) ==
    /\ Len(written) < MaxWrites
    /\ op >= Op_Constant
    /\ chunk' = write_jump(chunk, op)
    /\ written' = Append(written, Written("write_jump", chunk, op, JUMP_PLACEHOLDER, write_jump(chunk, op)))
    /\ UNCHANGED vmVars
    /\ UNCHANGED histVars
    /\ UNCHANGED symVars
    /\ UNCHANGED scanVars

\* patch_jump on the i-th call, a write_jump: the jump then holds delta.
PatchJump(i, delta) ==
    /\ written[i].call = "write_jump"
    /\ chunk' = chunk_patch_jump(chunk, written[i].offset, delta)
    /\ written' = [written EXCEPT ![i].call = "patch_jump", ![i].arg = delta]
    /\ UNCHANGED vmVars
    /\ UNCHANGED histVars
    /\ UNCHANGED symVars
    /\ UNCHANGED scanVars

NextChunk ==
    \/ \E op \in ZeroOps : WriteOp(op)
    \/ \E op \in ArgOps, arg \in Args : WriteOpArg(op, arg)
    \/ \E op \in {Op_Jump, Op_JumpIfFalse} : WriteJump(op)
    \/ \E i \in DOMAIN written, delta \in Deltas : PatchJump(i, delta)

SpecChunk == Init /\ [][NextChunk]_vars

(***************************************************************************)
(* The symbol table called directly (vm.rs): any MaxInterns calls of       *)
(* Vm::get_symbol, which is SymTable::intern on the table of the VM, with  *)
(* identifiers of Idents.                                                  *)
(***************************************************************************)
MaxInterns == 4

Idents == {"clock", "a", "b", "ab"}

GetSymbol(ident) ==
    /\ Len(interned) < MaxInterns
    /\ symbols' = intern(symbols, ident).st
    /\ interned' = Append(interned, [ident |-> ident, sym |-> intern(symbols, ident).sym])
    /\ UNCHANGED <<pc, parser, stdout, stderr, frames, stack, globals, current, ip, result, calls, steps>>
    /\ UNCHANGED histVars
    /\ UNCHANGED chunkVars
    /\ UNCHANGED scanVars

NextSym == \E ident \in Idents : GetSymbol(ident)

SpecSym == Init /\ [][NextSym]_vars

(***************************************************************************)
(* Parser::emit_constant called directly (parser.rs), on a parser whose    *)
(* chunk has no constant yet or has MAX_CONSTS - 1 of them: any MaxEmits   *)
(* calls, with the values of ConstValues.  steps counts the calls.         *)
(***************************************************************************)
MaxEmits == 4

ConstValues == {ValNumber(1), ValString("a"), ValBoolean(TRUE)}

InitConst ==
    /\ \E n \in {0, MAX_CONSTS - 1} :
          parser = [NewParser(Scan(<<>>), <<>>, InitSymbols) EXCEPT !.chunk.constants = Nils(n)]
    /\ pc = "parsing"
    /\ stdout = <<>>
    /\ stderr = <<>>
    /\ frames = <<>>
    /\ stack = <<>>
    /\ globals = InitGlobals
    /\ symbols = InitSymbols
    /\ current = 0
    /\ ip = 0
    /\ result = [kind |-> "none", msg |-> ""]
    /\ calls = 1
    /\ steps = 0
    /\ localv = <<>>
    /\ entryH = <<>>
    /\ iterH = <<>>
    /\ brk = NoBreak
    /\ cont = NoContinue
    /\ ChunkInit

EmitConstant(value) ==
    /\ steps < MaxEmits
    /\ steps' = steps + 1
    /\ parser' = emit_constant(parser, value)
    /\ stderr' = emit_constant(parser, value).stderr
    /\ UNCHANGED <<pc, stdout, frames, stack, globals, symbols, current, ip, result, calls>>
    /\ UNCHANGED histVars
    /\ UNCHANGED chunkVars
    /\ UNCHANGED symVars
    /\ UNCHANGED scanVars

NextConst == \E value \in ConstValues : EmitConstant(value)

SpecConst == InitConst /\ [][NextConst]_vars

(***************************************************************************)
(* The jumps of the parser called directly (parser.rs), around code of the *)
(* lengths of BodyLens: emit_jump, a body, patch_jump on that jump and an  *)
(* instruction after it; or a body, emit_loop to an offset of it, and the  *)
(* VM entering the chunk at the Loop instruction to run it.  written keeps *)
(* the calls; the chunk begins with no code or with three code units.      *)
(***************************************************************************)
BodyLens == {0, 1, 2, 255, 256, 32766, 65535, 65536}

LoopDests == {0, 1, 2}

\* The code units that n calls of emit_op leave, of Nil and Pop in turn.
Body(c, n) ==
    [c EXCEPT !.code = @ \o [i \in 1..n |-> U16(IF i % 2 = 1 THEN Op_Nil ELSE Op_Pop, 0)],
              !.lines = @ \o [i \in 1..n |-> c.current]]

InitJumps ==
    /\ \E n \in {0, 3} : parser = [NewParser(Scan(<<>>), <<>>, InitSymbols) EXCEPT !.chunk = Body(NewChunk, n)]
    /\ pc = "parsing"
    /\ stdout = <<>>
    /\ stderr = <<>>
    /\ frames = <<>>
    /\ stack = <<>>
    /\ globals = InitGlobals
    /\ symbols = InitSymbols
    /\ current = 0
    /\ ip = 0
    /\ result = [kind |-> "none", msg |-> ""]
    /\ calls = 1
    /\ steps = 0
    /\ localv = <<>>
    /\ entryH = <<>>
    /\ iterH = <<>>
    /\ brk = NoBreak
    /\ cont = NoContinue
    /\ ChunkInit

\* A call on the parser that leaves it as ps, recorded as w.
ParserCall(ps, w) ==
    /\ pc = "parsing"
    /\ parser' = ps
    /\ stderr' = ps.stderr
    /\ written' = Append(written, w)
    /\ UNCHANGED <<pc, stdout, frames, stack, globals, symbols, current, ip, result, calls, steps>>
    /\ UNCHANGED histVars
    /\ UNCHANGED <<chunk, interned>>
    /\ UNCHANGED scanVars

EmitJump(op) ==
    /\ written = <<>>
    /\ ParserCall(emit_jump(parser, op),
                  Written("emit_jump", parser.chunk, op, JUMP_PLACEHOLDER, emit_jump(parser, op).chunk))

EmitBody(n) ==
    /\ written = <<>> \/ (Len(written) = 1 /\ written[1].call = "emit_jump")
    /\ ParserCall([parser EXCEPT !.chunk = Body(@, n)],
                  Written("emit_op", parser.chunk, Op_Nil, 0, Body(parser.chunk, n)))

PatchJumpOfParser ==
    /\ Len(written) = 2
    /\ written[1].call = "emit_jump"
    /\ ParserCall(patch_jump(parser, written[1].offset),
                  Written("patch_jump", parser.chunk, written[1].op, written[1].offset,
                          patch_jump(parser, written[1].offset).chunk))

EmitAfterPatch ==
    /\ Len(written) = 3
    /\ written[3].call = "patch_jump"
    /\ ParserCall(emit_op(parser, Op_Pop), Written("emit_op", parser.chunk, Op_Pop, 0, emit_op(parser, Op_Pop).chunk))

EmitLoop(dest) ==
    /\ Len(written) = 1
    /\ written[1].call = "emit_op"
    /\ dest <= chunk_len(parser.chunk)
    /\ ParserCall(emit_loop(parser, dest), Written("emit_loop", parser.chunk, Op_Loop, dest, emit_loop(parser, dest).chunk))

\* run_frame is entered on the chunk with a frame whose offset is that of
\* the Loop instruction emitted, to run that one instruction.
RunLoop ==
    /\ pc = "parsing"
    /\ Len(written) = 2
    /\ written[2].call = "emit_loop"
    /\ ~parser.had_error
    /\ frames' = <<NewFrame(LoxFunction("<script>", parser.chunk, parser.dbg), 0, written[2].offset)>>
    /\ stack' = <<ValNil>>
    /\ current' = 0
    /\ ip' = written[2].offset
    /\ pc' = "running"
    /\ steps' = MaxSteps - 1
    /\ UNCHANGED <<parser, stdout, stderr, globals, symbols, result, calls>>
    /\ UNCHANGED histVars
    /\ UNCHANGED chunkVars
    /\ UNCHANGED symVars
    /\ UNCHANGED scanVars

NextJumps ==
    \/ \E op \in {Op_Jump, Op_JumpIfFalse} : EmitJump(op)
    \/ \E n \in BodyLens : EmitBody(n)
    \/ PatchJumpOfParser
    \/ EmitAfterPatch
    \/ \E dest \in LoopDests : EmitLoop(dest)
    \/ RunLoop
    \/ Step

SpecJumps == InitJumps /\ [][NextJumps]_vars

(***************************************************************************)
(* The scanner called directly: Scanner::new on a text of at most MaxText  *)
(* characters of Chars, then scan_token until it returns Eof.              *)
(***************************************************************************)
MaxText == 4

Chars == {"1", "7", ".", ";", " ", "\"", "\n"}

Texts == UNION {[1..n -> Chars] : n \in 0..MaxText}

InitScan ==
    /\ VmInit
    /\ chunk = NewChunk
    /\ written = <<>>
    /\ interned = <<>>
    /\ \E text \in Texts : scanner = [sc |-> NewScanner(text), tokens |-> <<>>]

ScanToken ==
    /\ IF scanner.tokens = <<>> THEN TRUE ELSE scanner.tokens[Len(scanner.tokens)].ty # "Eof"
    /\ scanner' = [sc |-> scanner_scan_token(scanner.sc).sc,
                   tokens |-> Append(scanner.tokens, scanner_scan_token(scanner.sc).token)]
    /\ UNCHANGED vmVars
    /\ UNCHANGED histVars
    /\ UNCHANGED chunkVars
    /\ UNCHANGED symVars

SpecScan == InitScan /\ [][ScanToken]_vars

\* The offsets at which InstIter::next, begun at offset 0, returns an
\* instruction: offset 0 and every offset after a unit that is no Extend.
InstructionStarts(c) == {off \in 0..(chunk_len(c) - 1) : off = 0 \/ HiByte(c.code[off]) # Op_Extend}

(***************************************************************************)
(* Properties.                                                             *)
(***************************************************************************)
\* The frame the dispatch loop runs, its chunk and the compiler's history of it.
RunFrame == frames[current + 1]
RunChunk == RunFrame.func.chunk
RunDbg == RunFrame.func.dbg

\* C1: after an interpret call that ended with a runtime error, the value
\* stack and the frame stack are both empty.
C1_EmptyAfterRuntimeError == result.kind = "Err" => (stack = <<>> /\ frames = <<>>)

\* A call has ended with a runtime error raised while the script's frame ran.
C1_Reached == result.kind = "Err" /\ pc = "idle" /\ stdout # <<>>

\* C2: the slot operand of a GetLocal, added to the frame's base, is the
\* index of the stack entry that holds the local: when GetLocal(slot) is the
\* next instruction, stack[base + slot] is the value last stored in that
\* local by its initializer or by an assignment.
C2_LocalSlotHoldsLocal ==
    (pc = "running" /\ ip < chunk_len(RunChunk) /\ get_instruction(RunChunk, ip).opcode = Op_GetLocal
       /\ get_instruction(RunChunk, ip).operand \in DOMAIN localv)
    => /\ RunFrame.base + get_instruction(RunChunk, ip).operand < Len(stack)
       /\ stack[RunFrame.base + get_instruction(RunChunk, ip).operand + 1] = localv[get_instruction(RunChunk, ip).operand]

\* What write_op_arg(w.op, w.arg) wrote is what get_instruction reads at the
\* offset where it began.
RoundTrip(w) ==
    /\ get_instruction(chunk, w.offset).opcode = w.op
    /\ get_instruction(chunk, w.offset).operand = w.arg
    /\ get_instruction(chunk, w.offset).len = w.units

\* The calls of write_op_arg made on chunk (write_jump is one, with 0xfff).
OpArgWrites == {i \in DOMAIN written : written[i].call \in {"write_op_arg", "write_jump"}}

\* C3 as stated: for every op >= Constant and arg <= 0xFFFFFF, decoding at
\* the offset where write_op_arg(op, arg) began yields op and arg, with a
\* length equal to the number of code units written.
C3_RoundTrip == \A i \in OpArgWrites : RoundTrip(written[i])

\* C3, amended: the round trip holds for every op >= Constant other than
\* Extend and every arg <= 0xFFFFFF, whatever is written after it.
C3_RoundTripExceptExtend == \A i \in OpArgWrites : written[i].op # Op_Extend => RoundTrip(written[i])

\* An operand of three bytes, written with Extend units before another
\* instruction, is read back.
C3_Reached ==
    \E i \in OpArgWrites :
        /\ i < Len(written)
        /\ written[i].op # Op_Extend
        /\ written[i].arg = 16777215
        /\ written[i].units > 1
        /\ RoundTrip(written[i])

\* C4: write_op_arg writes one code unit for an operand <= 0xFF, and
\* 1 + ceil((bits_used - 8) / 8) code units for an operand above it: two for
\* 0x100..0xFFFF, three for 0x10000..0xFFFFFF.
C4_UnitCount ==
    \A i \in DOMAIN written :
        written[i].call = "write_op_arg" =>
            written[i].units = IF written[i].arg <= 255 THEN 1 ELSE 1 + (BitLen(written[i].arg) + 7 - 8) \div 8

\* The jumps and loops of a chunk land on an instruction or on the end of
\* the chunk, and no jump holds the placeholder.
JumpsLand(c) ==
    \A off \in InstructionStarts(c) :
        /\ get_instruction(c, off).opcode \in {Op_Jump, Op_JumpIfFalse} =>
             /\ (off + get_instruction(c, off).len + get_instruction(c, off).operand)
                    \in InstructionStarts(c) \cup {chunk_len(c)}
             /\ get_instruction(c, off).operand # JUMP_PLACEHOLDER
        /\ get_instruction(c, off).opcode = Op_Loop =>
             (off + get_instruction(c, off).len - get_instruction(c, off).operand)
                 \in InstructionStarts(c) \cup {chunk_len(c)}

\* C5: in every chunk that a compilation without error returned (the chunks
\* of the frames), the target of every Jump, JumpIfFalse and Loop is the
\* first code unit of an instruction or the end of the chunk, and no Jump or
\* JumpIfFalse keeps its placeholder operand.
C5_JumpTargets == \A i \in DOMAIN frames : JumpsLand(frames[i].func.chunk)

\* C6: when the compilation of a source has reported an error, interpret
\* runs nothing of it: from the beginning of the call to the end of the
\* compilation nothing is written to stdout and no global is bound or
\* changed, and the call then returns Ok without entering the dispatch loop.
C6_CompileErrorRunsNothing ==
    [][/\ (pc = "parsing" \/ pc' = "parsing") => (stdout' = stdout /\ globals' = globals)
       /\ (pc = "parsing" /\ pc' # "parsing" /\ parser'.had_error) =>
            (pc' = "idle" /\ result'.kind = "Ok" /\ frames' = frames /\ stack' = stack)]_vars

\* A second call on a VM that has printed: its source has compile errors and
\* the call has returned Ok.
C6_Reached ==
    /\ calls = 2
    /\ pc = "idle"
    /\ parser.had_error
    /\ result.kind = "Ok"
    /\ stdout = <<"14">>
    /\ Len(stderr) > 0

\* The number of lines a compilation has written to stderr.
Errors(log) == Cardinality({i \in DOMAIN log : log[i] = "E"})

\* C7: only the first error of a synchronization region is reported: after a
\* line is written to stderr no other is written before synchronize has run
\* (in the log an "E" is followed by an "S"), panic_mode is set from the
\* error to the synchronize, had_error stays set once a line was written,
\* and stderr grows by the errors reported and by nothing else.
C7_FirstErrorOnly ==
    [][/\ \A i \in 1..(Len(parser'.log) - 1) : parser'.log[i] = "E" => parser'.log[i + 1] = "S"
       /\ parser'.panic_mode = (parser'.log # <<>> /\ parser'.log[Len(parser'.log)] = "E")
       /\ Errors(parser'.log) > 0 => parser'.had_error
       /\ (calls' = calls /\ parser.had_error) => parser'.had_error
       /\ Len(stderr') - Len(stderr) = Errors(parser'.log) - (IF calls' = calls THEN Errors(parser.log) ELSE 0)]_vars

\* A compilation has reported an error, synchronized, and reported the error
\* it found after that.
C7_Reached ==
    /\ pc = "idle"
    /\ calls = 1
    /\ Len(parser.log) >= 3
    /\ SubSeq(parser.log, 1, 3) = <<"E", "S", "E">>
    /\ Len(stderr) = 2
    /\ parser.had_error

\* C8: the VM keeps its globals and its symbols from call to call: between
\* the end of a call and the first instruction of the next no global
\* changes, and an id that names an identifier names it ever after.
C8_StateAccumulates ==
    [][/\ (pc = "idle" \/ pc = "parsing") => globals' = globals
       /\ \A i \in DOMAIN symbols.names : i \in DOMAIN symbols'.names /\ symbols'.names[i] = symbols.names[i]
       /\ \A e \in SeqRange(symbols'.symbols) : lookup(symbols', e[2]) = e[1]]_vars

\* The second call has read the global that the first call defined, under
\* the id the first call gave it, and has assigned to it.
C8_Reached ==
    /\ calls = 2
    /\ pc = "idle"
    /\ result.kind = "Ok"
    /\ stdout = <<"1">>
    /\ sym_get(symbols, "g") # {}
    /\ globals[intern(symbols, "g").sym] = ValNumber(2)

\* C9: after a break statement has run, and until the first instruction
\* after its innermost loop runs, no instruction of the loop's initializer
\* or condition, of its increment clause or of its body (but the break's
\* own) is the next to run, nor the Loop that ends the body; control stays
\* within the loop statement, and reaches its end with the value stack at
\* the height it had when the loop statement was entered.
C9_BreakLeavesInnermostLoop ==
    (pc = "running" /\ brk.on) =>
        /\ brk.loop.exit_jump <= ip /\ ip <= brk.loop.hi
        /\ ~InRange(ip, brk.loop.incr_lo, brk.loop.incr_hi)
        /\ InRange(ip, brk.loop.body_lo, brk.loop.body_hi) => InRange(ip, brk.lo, brk.hi)
        /\ ip # brk.loop.body_hi
        /\ ip = brk.loop.hi => Len(stack) = entryH[brk.loop.lo]

\* A break in a for loop with an increment clause, nested in a while loop,
\* has discarded the locals of the body and reached the end of the for loop.
C9_Reached ==
    /\ pc = "running"
    /\ brk.on
    /\ ip = brk.loop.hi
    /\ Cardinality(EnclosingLoops(RunDbg, brk.lo)) = 2
    /\ brk.loop.incr_lo < brk.loop.incr_hi
    /\ get_instruction(RunChunk, brk.lo).opcode = Op_PopN
    /\ stdout = <<"0", "0">>

\* C10: a continue statement runs its own instructions and then passes
\* control to the increment clause of its innermost loop, if the loop has
\* one, and to the condition otherwise, with the value stack at the height
\* it had when the body was entered; after the increment clause the
\* condition is the next to run.
C10_ContinueNextIteration ==
    (pc = "running" /\ cont.on) =>
        IF cont.next = -1 THEN InRange(ip, cont.lo, cont.hi)
        ELSE /\ cont.next = (IF cont.loop.incr_lo < cont.loop.incr_hi THEN cont.loop.incr_lo ELSE cont.loop.cond_lo)
             /\ (ip = cont.loop.cond_lo \/ InRange(ip, cont.loop.incr_lo, cont.loop.incr_hi))
             /\ ip = cont.next => Len(stack) = iterH[cont.loop.body_lo]

\* A continue in a for loop has discarded the local of the body, the
\* increment clause has run and the condition is next.
C10_Reached ==
    /\ pc = "running"
    /\ cont.on
    /\ cont.loop.incr_lo < cont.loop.incr_hi
    /\ cont.next = cont.loop.incr_lo
    /\ ip = cont.loop.cond_lo
    /\ get_instruction(RunChunk, cont.lo).opcode = Op_PopN
    /\ stdout = <<"0", "1">>

\* The calls of the parser's call stack that stand in the body of a loop
\* statement: a break or continue the parser meets is lexically inside a loop
\* body when there is one.
LoopBodies(ctl) ==
    {i \in DOMAIN ctl : (ctl[i].fn = "while_statement" /\ ctl[i].at = 2) \/ (ctl[i].fn = "for_statement" /\ ctl[i].at = 5)}

\* The parser stands at the beginning of a statement, on the keyword kw.
AtStatement(kw) ==
    /\ pc = "parsing"
    /\ parser.ctl # <<>>
    /\ here(parser).fn = "statement"
    /\ here(parser).at = 0
    /\ parser.current.ty = kw

\* The line report_error writes for an error at the token ';' of line n.
OutsideLoop(word, n) == "[line " \o ToString(n) \o "] Error at ';': '" \o word \o "' outside of loop"

\* C11: a break or continue statement that stands in no loop body, be it
\* nested in an if or a block, is a compile error: the compilation has an
\* error after it, the statement emits no code, and when its ';' follows
\* (and no error is pending) the line "'break' outside of loop" or
\* "'continue' outside of loop" is written; the script is not run.  In a
\* loop body, nested in an if or a block or not, the statement followed by
\* its ';' reports nothing and emits its code.
C11_OutsideLoopIsError ==
    [][/\ \A kw \in {"Break", "Continue"} :
            AtStatement(kw) =>
                LET word == IF kw = "Break" THEN "break" ELSE "continue"
                    semi == scan_token(parser.src, parser.pos)
                IN IF LoopBodies(parser.ctl) = {}
                   THEN /\ parser'.had_error
                        /\ parser'.chunk.code = parser.chunk.code
                        /\ (semi.ty = "Semicolon" /\ ~parser.panic_mode) =>
                               stderr' = Append(stderr, OutsideLoop(word, semi.line))
                   ELSE /\ semi.ty = "Semicolon" =>
                               /\ stderr' = stderr
                               /\ parser'.had_error = parser.had_error
                               /\ Len(parser'.chunk.code) > Len(parser.chunk.code)
       /\ (pc = "parsing" /\ pc' = "running") => ~parser'.had_error]_vars

\* A continue in an if in a block, outside of any loop, was reported, and the
\* call has returned without running the print before it.
C11_Reached ==
    /\ pc = "idle"
    /\ calls = 1
    /\ result.kind = "Ok"
    /\ stderr = <<OutsideLoop("continue", 2)>>
    /\ stdout = <<>>
    /\ frames = <<>>

\* A break in an if and a continue in a block in an if, both in a loop body,
\* were compiled without error.
C11_Accepted ==
    /\ pc = "running"
    /\ stderr = <<>>
    /\ RunDbg.breaks # <<>> \/ RunDbg.conts # <<>>

\* The first call on the VM, of the source src, has returned Ok.
Ran(src) == pc = "idle" /\ calls = 1 /\ result.kind = "Ok" /\ ~parser.had_error /\ parser.src = Scan(src)

\* C12: in nested blocks a name stands for its innermost declaration in
\* scope, and for the outer one again, with its value unchanged, when the
\* inner block has ended: with a global `a` and a local `a` in a block the
\* print in the block shows the local and the print after it the global;
\* with a local `a` and a local `a` in a block nested in its block the
\* inner print shows the inner local and the outer print the outer local.
C12_InnermostDeclaration ==
    /\ Ran(SrcScope) => stdout = <<"inner", "outer">>
    /\ Ran(SrcShadowLocal) => stdout = <<"shadow", "local">>

\* The parser stands at the beginning of the function fn of the grammar.
AtCall(fn) == pc = "parsing" /\ parser.ctl # <<>> /\ here(parser).fn = fn /\ here(parser).at = 0

\* The line report_error writes for the error msg at the token tok.
ErrorAt(tok, msg) == "[line " \o ToString(tok.line) \o "] Error at '" \o tok.text \o "': " \o msg

\* The locals of the scope the parser is in that have the name of the
\* identifier tok.
SameScope(ps, tok) ==
    {i \in DOMAIN ps.locals.locals :
        /\ ps.locals.locals[i].depth = ps.locals.depth
        /\ sym_get(ps.symtab, tok.text) # {}
        /\ ps.locals.locals[i].sym = intern(ps.symtab, tok.text).sym}

\* C13: a declaration `var x` in a block, where x is the name of a local
\* already declared in the same scope, reports "already a variable with this
\* name in this scope" (when no error is pending) and adds no local; where
\* the scope has no local x, be there one in an enclosing scope or in a
\* scope that has ended, the declaration does not report it and adds the
\* local x, uninitialized.
C13_DuplicateLocal ==
    [][(AtCall("var_declaration") /\ ~top_level(parser.locals) /\ parser.current.ty = "Identifier") =>
          LET tok == parser.current
              line == ErrorAt(tok, "already a variable with this name in this scope")
              n == Len(parser.locals.locals)
          IN IF SameScope(parser, tok) # {}
             THEN /\ parser'.had_error
                  /\ ~parser.panic_mode => (Len(stderr') > Len(stderr) /\ stderr'[Len(stderr) + 1] = line)
                  /\ Len(parser'.locals.locals) = n
             ELSE /\ \A i \in DOMAIN stderr' : i > Len(stderr) => stderr'[i] # line
                  /\ Len(parser'.locals.locals) = n + 1
                  /\ parser'.locals.locals[n + 1].sym = intern(parser'.symtab, tok.text).sym]_vars

\* The second `var a` of a block was reported at its line, and the call has
\* returned without running the script.
C13_Reached ==
    /\ pc = "idle"
    /\ calls = 1
    /\ parser.src = Scan(SrcDuplicateLocal)
    /\ stderr = <<"[line 3] Error at 'a': already a variable with this name in this scope">>
    /\ stdout = <<>>

\* A name was declared again in a nested scope, and in a scope that follows
\* the scope of its first declaration, without error.
C13_Accepted ==
    /\ pc = "idle" /\ calls = 1 /\ stderr = <<>>
    /\ parser.src = Scan(SrcShadowLocal) \/ parser.src = Scan(SrcScopeReuse)

\* The declarations of locals whose initializer the parser is compiling:
\* the calls of var_declaration that stand in their initializer, in a block,
\* and that added their local.
Initializing(ps) == {i \in DOMAIN ps.ctl : ps.ctl[i].fn = "var_declaration" /\ ps.ctl[i].at = 1 /\ ps.ctl[i].fresh}

\* C14: a local is uninitialized (depth -1) from its declaration to the end
\* of its initializer, and no other local is; an identifier of that name in
\* the initializer reports "can't read local variable in its own
\* initializer" (when no error is pending) and compiles to no access of a
\* global, be there an enclosing local or a global of that name; at global
\* scope an identifier in an initializer compiles to GetGlobal without error.
C14_OwnInitializer ==
    [][/\ pc' = "parsing" =>
            \A i \in DOMAIN parser'.locals.locals :
                (parser'.locals.locals[i].depth = -1) =
                    (i = Len(parser'.locals.locals) /\ \E j \in Initializing(parser') : parser'.ctl[j].sym = parser'.locals.locals[i].sym)
       /\ AtCall("variable") =>
            LET tok == parser.previous
                line == ErrorAt(tok, "can't read local variable in its own initializer")
                own == \E i \in Initializing(parser) : lookup(parser.symtab, parser.ctl[i].sym) = tok.text
                reads == ~(here(parser).can_assign /\ parser.current.ty = "Equal")
                got == get_instruction(parser'.chunk, chunk_len(parser.chunk))
            IN /\ reads = (chunk_len(parser'.chunk) > chunk_len(parser.chunk))
               /\ IF own
                  THEN /\ parser'.had_error
                       /\ ~parser.panic_mode => stderr' = Append(stderr, line)
                       /\ reads => (got.opcode = Op_GetLocal /\ got.operand = Len(parser.locals.locals) - 1)
                  ELSE /\ stderr' = stderr
                       /\ (reads /\ top_level(parser.locals)) => got.opcode = Op_GetGlobal]_vars

\* `var a = a;` in a block, with a global a, was reported at its line, and
\* the call has returned without running the script.
C14_Reached ==
    /\ pc = "idle"
    /\ calls = 1
    /\ parser.src = Scan(SrcUseLocalInInitializer)
    /\ stderr = <<"[line 3] Error at 'a': can't read local variable in its own initializer">>
    /\ globals = InitGlobals

\* `var a = a;` at global scope has read the global a.
C14_Global == Ran(SrcUseGlobalInInitializer) /\ stdout = <<"value">>

\* The number of SetLocal and SetGlobal instructions of a chunk.
SetCount(c) ==
    Cardinality({off \in InstructionStarts(c) : get_instruction(c, off).opcode \in {Op_SetLocal, Op_SetGlobal}})

\* C15: an `=` is taken for an assignment only after a bare identifier that
\* is parsed at assignment precedence: variable is told that it may assign
\* exactly when the parse_precedence that called it has a precedence of
\* Assignment or lower, it leaves the `=` alone otherwise, and nothing else
\* emits a SetLocal or SetGlobal.  An `=` that is left when an expression
\* of assignment precedence is over is consumed and reports "invalid
\* assignment target" at the `=` (when no error is pending), and no code is
\* emitted for it: so for `(a) = ..`, `a + b = ..` and `!a = ..`.
C15_InvalidTarget ==
    [][/\ (pc = "parsing" /\ parser.ctl # <<>> /\ here(parser).fn = "parse_precedence" /\ here(parser).at = 1
              /\ parser.current.ty = "Equal" /\ here(parser).precedence <= Prec_Assignment) =>
            /\ parser'.had_error
            /\ ~parser.panic_mode => stderr' = Append(stderr, ErrorAt(parser.current, "invalid assignment target"))
            /\ parser'.previous = parser.current
            /\ parser'.chunk.code = parser.chunk.code
       /\ AtCall("variable") =>
            /\ Len(parser.ctl) > 1
            /\ parser.ctl[Len(parser.ctl) - 1].fn = "parse_precedence"
            /\ here(parser).can_assign = (parser.ctl[Len(parser.ctl) - 1].precedence <= Prec_Assignment)
            /\ (parser.current.ty = "Equal" /\ ~here(parser).can_assign) => parser'.current = parser.current
       /\ (pc = "parsing" /\ pc' = "parsing" /\ SetCount(parser'.chunk) # SetCount(parser.chunk)) =>
            (here(parser).fn = "variable" /\ here(parser).at = 1)
       /\ (pc' = "idle" /\ calls' = 1 /\ parser'.src = Scan(SrcBadTarget)) =>
            (stderr' = <<"[line 1] Error at '=': invalid assignment target">> /\ SetCount(parser'.chunk) = 0)
       /\ (pc' = "idle" /\ calls' = 1 /\ parser'.src = Scan(SrcInfixTarget)) =>
            (stderr' = <<"[line 1] Error at '=': invalid assignment target">> /\ SetCount(parser'.chunk) = 0)
       /\ (pc' = "idle" /\ calls' = 1 /\ parser'.src = Scan(SrcPrefixTarget)) =>
            (stderr' = <<"[line 2] Error at '=': invalid assignment target">> /\ SetCount(parser'.chunk) = 0)]_vars

\* The `=` after `!a` was reported, no assignment was compiled, and the call
\* has returned without running the script.
C15_Reached ==
    /\ pc = "idle"
    /\ calls = 1
    /\ parser.src = Scan(SrcPrefixTarget)
    /\ stderr = <<"[line 2] Error at '=': invalid assignment target">>
    /\ SetCount(parser.chunk) = 0
    /\ stdout = <<>>

\* The dispatch loop is about to run an instruction of opcode op.
NextIs(op) == pc = "running" /\ ip < chunk_len(RunChunk) /\ get_instruction(RunChunk, ip).opcode = op

\* The operand of the instruction the dispatch loop is about to run.
NextOperand == get_instruction(RunChunk, ip).operand

\* The globals g and h differ at most in the binding of sym.
SameBut(g, h, sym) == \A x \in (DOMAIN g \cup DOMAIN h) \ {sym} : x \in DOMAIN g /\ x \in DOMAIN h /\ g[x] = h[x]

\* C16: SetGlobal(sym) on a symbol without binding ends the call with the
\* error "undefined variable '<name>'", name being the name of sym, at the
\* line of the instruction, and binds nothing; on a bound symbol it binds
\* sym to the value on top of the stack, changes no other binding, leaves
\* the stack as it was and goes on with the next instruction.
C16_SetGlobal ==
    [][NextIs(Op_SetGlobal) =>
          IF NextOperand \in DOMAIN globals
          THEN /\ stack # <<>>
               /\ NextOperand \in DOMAIN globals'
               /\ globals'[NextOperand] = stack[Len(stack)]
               /\ SameBut(globals, globals', NextOperand)
               /\ stack' = stack
               /\ pc' = "running"
               /\ ip' = ip + get_instruction(RunChunk, ip).len
          ELSE /\ globals' = globals
               /\ pc' = "idle"
               /\ result' = [kind |-> "Err",
                             msg |-> "[line " \o ToString(get_line(RunChunk, ip)) \o "] undefined variable '"
                                         \o lookup(symbols, NextOperand) \o "'"]]_vars

\* An assignment to a global has left its value for the print around it,
\* and an assignment to a name without binding has ended the call.
C16_Reached ==
    /\ pc = "idle"
    /\ calls = 1
    /\ stdout = <<"arg", "arg">>
    /\ result = [kind |-> "Err", msg |-> "[line 4] undefined variable 'unknown'"]
    /\ sym_get(symbols, "unknown") # {}
    /\ intern(symbols, "unknown").sym \notin DOMAIN globals
    /\ globals[intern(symbols, "a").sym] = ValString("arg")

\* C17: DefineGlobal(sym) takes the value on top of the stack off it and
\* binds sym to it, be sym bound or not, without error and without change
\* to another binding; a global declared again without initializer is nil.
C17_DefineGlobal ==
    [][/\ NextIs(Op_DefineGlobal) =>
            /\ stack # <<>>
            /\ stack' = SubSeq(stack, 1, Len(stack) - 1)
            /\ NextOperand \in DOMAIN globals'
            /\ globals'[NextOperand] = stack[Len(stack)]
            /\ SameBut(globals, globals', NextOperand)
            /\ pc' = "running"
            /\ result' = result
       /\ (pc' = "idle" /\ calls' = 1 /\ parser'.src = Scan(SrcRedefineGlobal)) =>
            (result'.kind = "Ok" /\ stdout' = <<"2", "nil">> /\ globals'[intern(symbols', "a").sym] = ValNil)]_vars

\* A global was defined three times: the second definition replaced the
\* value of the first and the third, without initializer, left it nil.
C17_Reached ==
    /\ Ran(SrcRedefineGlobal)
    /\ stdout = <<"2", "nil">>
    /\ globals[intern(symbols, "a").sym] = ValNil

\* Where the code of the right operand of the `and` or `or` j begins: the
\* Pop that discards the left operand.
RightOperand(j) == IF j.kind = "and" THEN j.lo + 2 ELSE j.lo + 4

\* C18: the code of `a and b` and of `a or b`, reached with the value of a
\* on top of the stack.  When that value decides (falsy for and, truthy for
\* or) control goes to the end of the expression with the stack as it is,
\* running nothing of b; otherwise the value of a is popped and b runs.  At
\* the end of the expression the stack has the height it had with the value
\* of a on it, whenever control comes there from inside the expression: one
\* value is left on every path.  So the prints of the
\* sources show the deciding operand, and the assignments in the operands
\* that follow it are not made.
C18_ShortCircuit ==
    [][/\ (pc = "running" /\ pc' = "running") =>
            \A j \in SeqRange(RunDbg.logic) :
                /\ ip = j.lo =>
                      /\ stack # <<>>
                      /\ stack' = stack
                      /\ ip' = IF Truthy(stack[Len(stack)]) = (j.kind = "and")
                               THEN RightOperand(j)
                               ELSE IF j.kind = "and" THEN j.hi ELSE j.lo + 2
                /\ (j.kind = "or" /\ ip = j.lo + 2) => (ip' = j.hi /\ stack' = stack)
                /\ ip = RightOperand(j) => (stack' = SubSeq(stack, 1, Len(stack) - 1) /\ ip' = ip + 1)
                /\ (j.lo <= ip /\ ip < j.hi /\ ip' = j.hi) =>
                      (j.lo \in DOMAIN entryH' /\ Len(stack') = entryH'[j.lo])
       /\ (pc' = "idle" /\ calls' = 1 /\ parser'.src = Scan(SrcAnd)) =>
            (result'.kind = "Ok" /\ stdout' = <<"false", "false", "true", "false">>)
       /\ (pc' = "idle" /\ calls' = 1 /\ parser'.src = Scan(SrcOr)) =>
            (result'.kind = "Ok" /\ stdout' = <<"1", "2", "false", "true">>)]_vars

\* An `or` whose left operand is truthy has reached its end past its right
\* operand, after an `or` whose left operand is falsy has run its right one.
C18_Reached ==
    /\ pc = "running"
    /\ stdout = <<"1", "2">>
    /\ \E j \in SeqRange(RunDbg.logic) :
          /\ j.kind = "or"
          /\ ip = j.hi
          /\ Len(stack) = entryH[j.lo]
          /\ stack[Len(stack)] = ValBoolean(TRUE)
          /\ globals[intern(symbols, "a").sym] = ValBoolean(FALSE)
          /\ globals[intern(symbols, "b").sym] = ValBoolean(TRUE)

\* The first call on the VM, of the source src, has returned.
Done(src) == pc = "idle" /\ calls = 1 /\ parser.src = Scan(src)

\* The opcodes of the first n code units of a chunk.
Opcodes(c, n) == [i \in 1..n |-> HiByte(c.code[i])]

\* C19: expressions group by the order Assignment < Or < And < Equality <
\* Comparison < Term < Factor < Unary.  Of two neighbouring operators the
\* one of higher precedence takes the operand between them: `-2 * 3` negates
\* 2 before it multiplies, `true or false and false` is true, `nil and
\* 1 == 1` is nil, `false == 2 < 1` is true, `1 < 2 + 3` is true,
\* `20 - 3 * 4` is 8, `-1 + 2` is 1 and `!1 == true` is false.  Binary
\* operators of one precedence group from the left: `7 - 2 - 1` is 4,
\* `8 / 4 / 2` is 1 and `1 == 1 == true` is true.  Assignment groups from
\* the right: `a = b = c` gives a and b the value of c.
C19_Grouping ==
    /\ Done(SrcGrouping) =>
          /\ result.kind = "Ok"
          /\ ~parser.had_error
          /\ Opcodes(parser.chunk, 5) = <<Op_Constant, Op_Negate, Op_Constant, Op_Multiply, Op_Print>>
          /\ stdout = <<"-6", "true", "nil", "true", "true", "8", "1", "false", "4", "1", "true">>
    /\ Done(SrcAssociativity) =>
          /\ result.kind = "Ok"
          /\ ~parser.had_error
          /\ stdout = <<"c", "c", "c">>

\* The expressions of every level have been printed.
C19_Reached == Done(SrcGrouping) /\ Len(stdout) = 11 /\ stdout[6] = "8" /\ stdout[9] = "4"

\* The step ends the call with the runtime error msg, raised at the line of
\* the instruction it ran.
Fails(msg) ==
    /\ pc' = "idle"
    /\ result' = [kind |-> "Err", msg |-> "[line " \o ToString(get_line(RunChunk, ip)) \o "] " \o msg]

\* The step raises no error.
Succeeds == pc' # "idle" /\ result' = result

\* C20: the operators check the types of their operands when they run.
\* With a the value under the top of the stack and b the top: Subtract,
\* Multiply, Divide, Greater and Less fail with "operands must be numbers"
\* unless a and b are both numbers; Add fails with "operands must be numbers
\* or strings" unless both are numbers or both are strings; Negate fails
\* with "operand must be a number" unless b is a number; Not fails for no
\* operand, and leaves the negation of its truth.
C20_OperandTypes ==
    [][(pc = "running" /\ ip < chunk_len(RunChunk) /\ Len(stack) >= 2) =>
          LET op == get_instruction(RunChunk, ip).opcode
              b == stack[Len(stack)]
              a == stack[Len(stack) - 1]
          IN /\ op \in {Op_Subtract, Op_Multiply, Op_Divide, Op_Greater, Op_Less} =>
                  IF a.t = "Number" /\ b.t = "Number" THEN Succeeds ELSE Fails("operands must be numbers")
             /\ op = Op_Add =>
                  IF (a.t = "Number" /\ b.t = "Number") \/ (a.t = "String" /\ b.t = "String")
                  THEN Succeeds ELSE Fails("operands must be numbers or strings")
             /\ op = Op_Negate => IF b.t = "Number" THEN Succeeds ELSE Fails("operand must be a number")
             /\ op = Op_Not =>
                  /\ Succeeds
                  /\ stack' = [stack EXCEPT ![Len(stack)] = ValBoolean(b.t = "Nil" \/ b = ValBoolean(FALSE))]]_vars

\* Less, given a number on the left and a string on the right, has failed.
C20_Reached ==
    /\ pc = "idle"
    /\ steps = 1
    /\ HiByte(frames[1].func.chunk.code[1]) = Op_Less
    /\ result = [kind |-> "Err", msg |-> "[line 1] operands must be numbers"]
    /\ stack = <<>>

\* The dispatch loop is about to run Call(argc) on a builtin of arity argc.
CallsBuiltin ==
    /\ NextIs(Op_Call)
    /\ Len(stack) >= NextOperand + 1
    /\ stack[Len(stack) - NextOperand].t = "Builtin"
    /\ builtin_arity(stack[Len(stack) - NextOperand].v) = NextOperand

\* C21: Call(argc) on a builtin of arity argc replaces the callee and its
\* argc arguments by the result of the builtin: the stack below the callee
\* stays, the result is on top of it, and the stack is argc entries shorter
\* than it was.
C21_BuiltinCall ==
    [][CallsBuiltin =>
          /\ pc' = "running"
          /\ Len(stack') = Len(stack) - NextOperand
          /\ stack' = Append(SubSeq(stack, 1, Len(stack) - NextOperand - 1), clock)]_vars

\* C22: the compiler accepts a call expression: `print clock();` compiles
\* without error, to code that has the instruction Call(0) for the `(`
\* after the callee.
C22_CallCompiles ==
    Done(SrcCall) =>
        /\ ~parser.had_error
        /\ \E off \in InstructionStarts(parser.chunk) :
              /\ get_instruction(parser.chunk, off).opcode = Op_Call
              /\ get_instruction(parser.chunk, off).operand = 0

\* C23: whatever calls of intern were made, every call with one identifier
\* returned one id, calls with two identifiers returned two ids, lookup of
\* the id that a call returned is the identifier of the call, and a further
\* call of intern with an identifier returns the id that lookup maps to it.
C23_InternStable ==
    /\ \A i, j \in DOMAIN interned : (interned[i].ident = interned[j].ident) <=> (interned[i].sym = interned[j].sym)
    /\ \A i \in DOMAIN interned :
          /\ interned[i].sym \in 0..(Len(symbols.names) - 1)
          /\ lookup(symbols, interned[i].sym) = interned[i].ident
          /\ intern(symbols, interned[i].ident) = [st |-> symbols, sym |-> interned[i].sym]
    /\ \A s \in Idents : lookup(intern(symbols, s).st, intern(symbols, s).sym) = s

\* An identifier was interned, then another, then the first again.
C23_Reached ==
    /\ Len(interned) = 3
    /\ interned[1].ident = interned[3].ident
    /\ interned[2].ident # interned[1].ident
    /\ interned[1].ident # "clock"

\* The messages of the runtime errors of the dispatch loop.
RuntimeMessages ==
    {"operands must be numbers", "operands must be numbers or strings", "operand must be a number",
     "stack overflow", "can only call functions or classes"}
    \cup {"undefined variable '" \o n \o "'" : n \in SeqRange(symbols.names)}

\* C24: every code unit of the chunk was emitted with an instruction, and
\* the line that get_line gives for it is the line of the token that advance
\* had scanned last (the parser's current token) when the instruction was
\* emitted, the line of a string token being the line where it ends.  A
\* runtime error is the message of the error after "[line N] ", N being the
\* line so recorded for the instruction that raised it: line 8 for the `err`
\* that follows a string of four lines.
C24_LineOfEmission ==
    [][/\ \A e \in SeqRange(parser'.dbg.emits) :
              \A off \in e.lo..(e.hi - 1) : get_line(parser'.chunk, off) = e.line
       /\ \A off \in 0..(chunk_len(parser'.chunk) - 1) :
              \E e \in SeqRange(parser'.dbg.emits) : InRange(off, e.lo, e.hi)
       /\ (pc = "running" /\ pc' = "idle" /\ result'.kind = "Err") =>
              \E e \in SeqRange(RunDbg.emits) :
                  /\ e.lo = ip
                  /\ get_line(RunChunk, ip) = e.line
                  /\ result'.msg \in {with_line(msg, e.line) : msg \in RuntimeMessages}
       /\ (pc' = "idle" /\ calls' = 1 /\ parser'.src = Scan(SrcErrorAfterMultiline)) =>
              (stdout' = <<>> /\ result' = [kind |-> "Err", msg |-> "[line 8] undefined variable 'err'"])]_vars

\* The script with the string of four lines has failed at `err`, with code
\* that was emitted at lines 6 and 8, and at line 9 where the text ends.
C24_Reached ==
    /\ Done(SrcErrorAfterMultiline)
    /\ result = [kind |-> "Err", msg |-> "[line 8] undefined variable 'err'"]
    /\ {e.line : e \in SeqRange(parser.dbg.emits)} = {6, 8, 9}

\* C25: whatever calls of write_op, write_op_arg, write_jump and patch_jump
\* were made on a chunk, its line map has one entry for each code unit: the
\* line map is as long as the code.
C25_LineMapLength == Len(chunk.lines) = Len(chunk.code)

\* A jump was written and patched after an instruction that took Extend
\* units.
C25_Reached ==
    /\ Len(written) = 2
    /\ written[1].call = "write_op_arg"
    /\ written[1].units = 4
    /\ written[2].call = "patch_jump"
    /\ Len(chunk.code) = 6

\* C26: emit_constant on a chunk of fewer than MAX_CONSTS constants, the
\* chunk of MAX_CONSTS - 1 included, adds the value at the end of the pool,
\* reports nothing and emits Constant with the index of the value, which is
\* in the pool; on a chunk of MAX_CONSTS constants it leaves the pool and
\* the code as they are and reports "too many constants in one chunk".
C26_ConstantLimit ==
    [][LET n == Len(parser.chunk.constants)
           at == chunk_len(parser.chunk)
       IN IF n < MAX_CONSTS
          THEN /\ Len(parser'.chunk.constants) = n + 1
               /\ SubSeq(parser'.chunk.constants, 1, n) = parser.chunk.constants
               /\ parser'.chunk.constants[n + 1] \in ConstValues
               /\ parser'.had_error = parser.had_error
               /\ stderr' = stderr
               /\ chunk_len(parser'.chunk) > at
               /\ get_instruction(parser'.chunk, at).opcode = Op_Constant
               /\ get_instruction(parser'.chunk, at).operand = n
               /\ get_instruction(parser'.chunk, at).len = chunk_len(parser'.chunk) - at
          ELSE /\ parser'.chunk.constants = parser.chunk.constants
               /\ parser'.chunk.code = parser.chunk.code
               /\ parser'.had_error
               /\ stderr' # <<>>
               /\ stderr'[Len(stderr')] = "[line 1] Error at end: too many constants in one chunk"]_vars

\* The constant that filled the pool was added, and the next one refused.
C26_Reached ==
    /\ Len(parser.chunk.constants) = MAX_CONSTS
    /\ parser.had_error
    /\ chunk_len(parser.chunk) = 4
    /\ steps = 2

\* The value that the instruction about to run pushes.
Pushed ==
    LET op == get_instruction(RunChunk, ip).opcode
    IN CASE op = Op_Nil -> ValNil
         [] op = Op_True -> ValBoolean(TRUE)
         [] op = Op_False -> ValBoolean(FALSE)
         [] op = Op_GetLocal -> stack[RunFrame.base + NextOperand + 1]

\* C27: an instruction that pushes, run on a stack of fewer than MAX_STACK
\* values, puts its value on top of the stack and raises no error; run on a
\* stack of MAX_STACK values it ends the call with "stack overflow".  No
\* stack holds more than MAX_STACK values.
C27_StackLimit ==
    [][/\ (pc = "running" /\ ip < chunk_len(RunChunk)
             /\ get_instruction(RunChunk, ip).opcode \in PushOps \cup {Op_GetLocal}) =>
            IF Len(stack) < MAX_STACK
            THEN Succeeds /\ stack' = Append(stack, Pushed)
            ELSE Fails("stack overflow")
       /\ Len(stack) <= MAX_STACK
       /\ Len(stack') <= MAX_STACK]_vars

\* True was pushed on a stack of MAX_STACK - 1 values.
C27_Reached ==
    /\ pc = "running"
    /\ steps = 1
    /\ Len(stack) = MAX_STACK
    /\ stack[MAX_STACK] = ValBoolean(TRUE)

\* A push on a stack of MAX_STACK values has ended the call.
C27_Overflow ==
    /\ pc = "idle"
    /\ steps = 1
    /\ HiByte(frames[1].func.chunk.code[1]) = Op_GetLocal
    /\ result = [kind |-> "Err", msg |-> "[line 1] stack overflow"]

\* C28: patch_jump on a forward jump with a body of delta code units after
\* it.  With delta <= 0xFFFF, 0xFFFF included, it reports nothing, and the
\* jump then decodes at its offset to its opcode with operand delta in two
\* code units, so that it leads to the end of the body.  With delta =
\* 0x10000 it reports "too much code to jump over", the chunk keeps its
\* length, and the instruction that the compiler emits next is added to it.
C28_JumpLimit ==
    [][/\ (Len(written) = 2 /\ Len(written') = 3 /\ written'[3].call = "patch_jump") =>
            LET origin == written[1].offset
                delta == written[2].units
                inst == get_instruction(parser'.chunk, origin)
            IN /\ chunk_len(parser'.chunk) = chunk_len(parser.chunk)
               /\ IF delta <= 65535
                  THEN /\ stderr' = stderr
                       /\ ~parser'.had_error
                       /\ inst = [opcode |-> written[1].op, operand |-> delta, len |-> 2]
                       /\ origin + inst.len + inst.operand = chunk_len(parser'.chunk)
                  ELSE /\ stderr' = Append(stderr, "[line 1] Error at end: too much code to jump over")
                       /\ parser'.had_error
       /\ (Len(written) >= 3 /\ written[3].call = "patch_jump" /\ vars' # vars) =>
            /\ pc' = "parsing"
            /\ parser'.chunk.code = Append(parser.chunk.code, U16(Op_Pop, 0))]_vars

\* A jump over 0xFFFF code units was patched without error.
C28_Reached ==
    /\ Len(written) = 3
    /\ written[3].call = "patch_jump"
    /\ written[2].units = 65535
    /\ written[1].offset = 3
    /\ ~parser.had_error
    /\ get_instruction(parser.chunk, 3).operand = 65535

\* A jump over 0x10000 code units was reported, and code was emitted after it.
C28_TooFar ==
    /\ Len(written) = 4
    /\ written[2].units = 65536
    /\ parser.had_error
    /\ chunk_len(parser.chunk) = 65536 + 3

\* C29: the Loop instruction that emit_loop(dest) emitted without error,
\* when the VM runs it, sets the instruction pointer to dest, be its delta
\* in one code unit or behind Extend units.
C29_LoopLands ==
    [][(NextIs(Op_Loop) /\ Len(written) = 2 /\ written[2].call = "emit_loop" /\ ip = written[2].offset) =>
          (pc' = "running" /\ ip' = written[2].arg)]_vars

\* A Loop whose delta takes an Extend unit has set the instruction pointer
\* to its destination.
C29_Extended ==
    /\ pc = "running"
    /\ Len(written) = 2
    /\ written[2].call = "emit_loop"
    /\ written[2].units = 2
    /\ steps = MaxSteps
    /\ ip = written[2].arg

\* The character of the text at offset i, None past its end.
CharAt(i) == IF i < Len(scanner.sc.text) THEN scanner.sc.text[i + 1] ELSE None

Digits == {"0", "1", "2", "3", "4", "5", "6", "7", "8", "9"}

\* The characters from offset lo up to offset hi are digits, at least one.
DigitRun(lo, hi) == lo < hi /\ \A i \in lo..(hi - 1) : CharAt(i) \in Digits

\* C30: a number token is a run of digits that no digit precedes or
\* follows, or such a run, a `.` and a run of digits that no digit follows;
\* the token without `.` is not followed by a `.` and a digit.  When a `.`
\* follows the token, the token that is scanned next is that `.` as a Dot.
C30_NumberToken ==
    \A n \in DOMAIN scanner.tokens :
        LET t == scanner.tokens[n]
            whole == DigitRun(t.start, t.end)
            fraction == \E d \in (t.start + 1)..(t.end - 2) :
                            DigitRun(t.start, d) /\ CharAt(d) = "." /\ DigitRun(d + 1, t.end)
        IN t.ty = "Number" =>
              /\ whole \/ fraction
              /\ CharAt(t.end) \notin Digits
              /\ t.start > 0 => CharAt(t.start - 1) \notin Digits
              /\ whole => ~(CharAt(t.end) = "." /\ CharAt(t.end + 1) \in Digits)
              /\ (CharAt(t.end) = "." /\ n < Len(scanner.tokens)) =>
                    scanner.tokens[n + 1] = [ty |-> "Dot", start |-> t.end, end |-> t.end + 1, line |-> t.line]

\* The text `17.;` was scanned: the number 17, a Dot, a Semicolon and Eof.
C30_Reached ==
    /\ scanner.sc.text = <<"1", "7", ".", ";">>
    /\ Len(scanner.tokens) = 4
    /\ scanner.tokens[1] = [ty |-> "Number", start |-> 0, end |-> 2, line |-> 1]
    /\ scanner.tokens[2].ty = "Dot"
    /\ scanner.tokens[3].ty = "Semicolon"

\* The text `1.7` was scanned as one number.
C30_Fraction ==
    /\ scanner.sc.text = <<"1", ".", "7">>
    /\ Len(scanner.tokens) = 2
    /\ scanner.tokens[1] = [ty |-> "Number", start |-> 0, end |-> 3, line |-> 1]

\* The number of newlines of the text from offset lo up to offset hi.
Newlines(lo, hi) == Cardinality({i \in lo..(hi - 1) : CharAt(i) = "\n"})

\* No quote is in the text from offset lo up to offset hi.
NoQuote(lo, hi) == \A i \in lo..(hi - 1) : CharAt(i) # "\""

\* C31: what scan_token returns at a `"`.  When no `"` follows in the text
\* it is the error "unterminated string", at the line of the opening quote
\* however many newlines follow it, and the scanner stays at that line (the
\* Eof after it has it too).  When a `"` follows, it is a String token from
\* the opening quote to the first `"` after it, whose line is the line of
\* the opening quote and the number of newlines between the quotes.
C31_StringLines ==
    \A n \in DOMAIN scanner.tokens :
        LET t == scanner.tokens[n]
            len == Len(scanner.sc.text)
        IN CharAt(t.start) = "\"" =>
              IF NoQuote(t.start + 1, len)
              THEN /\ t.ty = "Error"
                   /\ t.msg = "unterminated string"
                   /\ t.end = len
                   /\ t.line = 1 + Newlines(0, t.start)
                   /\ n < Len(scanner.tokens) =>
                         scanner.tokens[n + 1] = [ty |-> "Eof", start |-> len, end |-> len, line |-> t.line]
              ELSE /\ t.ty = "String"
                   /\ t.end >= t.start + 2
                   /\ CharAt(t.end - 1) = "\""
                   /\ NoQuote(t.start + 1, t.end - 1)
                   /\ t.line = 1 + Newlines(0, t.start) + Newlines(t.start, t.end)

\* A string that begins on line 2 and has a newline and no closing quote
\* was reported at line 2.
C31_Reached ==
    /\ scanner.sc.text = <<"\n", "\"", "\n", "1">>
    /\ Len(scanner.tokens) = 2
    /\ scanner.tokens[1] = [ty |-> "Error", start |-> 1, end |-> 4, line |-> 2, msg |-> "unterminated string"]
    /\ scanner.tokens[2].ty = "Eof"

\* A string of two lines was scanned: the token after it is on line 2.
C31_Terminated ==
    /\ scanner.sc.text = <<"\"", "\n", "\"", ";">>
    /\ Len(scanner.tokens) >= 2
    /\ scanner.tokens[1] = [ty |-> "String", start |-> 0, end |-> 3, line |-> 2]
    /\ scanner.tokens[2] = [ty |-> "Semicolon", start |-> 3, end |-> 4, line |-> 2]

\* Values a and b are of one variant and equal within it.
SameValue(a, b) ==
    \/ a.t = "Nil" /\ b.t = "Nil"
    \/ a.t = "Boolean" /\ b.t = "Boolean" /\ (a.v <=> b.v)
    \/ a.t = "Number" /\ b.t = "Number" /\ a.v - b.v = 0
    \/ a.t = "String" /\ b.t = "String" /\ a.v = b.v
    \/ a.t = "Builtin" /\ b.t = "Builtin" /\ a.v = b.v

\* C32: Equal raises no error whatever its operands are; it takes the top
\* of the stack and writes, in place of the value under it, true when the
\* two are of one variant and equal within it and false otherwise: the
\* stack is one shorter and nothing else of it has changed.
C32_Equal ==
    [][(NextIs(Op_Equal) /\ Len(stack) >= 2) =>
          LET b == stack[Len(stack)]
              a == stack[Len(stack) - 1]
          IN /\ Succeeds
             /\ Len(stack') = Len(stack) - 1
             /\ stack' = Append(SubSeq(stack, 1, Len(stack) - 2), ValBoolean(SameValue(a, b)))]_vars

\* Equal has run on two values that are equal.
C32_Reached ==
    /\ steps = 1
    /\ HiByte(frames[1].func.chunk.code[1]) = Op_Equal
    /\ result.kind = "none"
    /\ stack = <<ValNil, ValBoolean(TRUE)>>

\* Equal has run on two values that are not equal.
C32_Differ ==
    /\ steps = 1
    /\ HiByte(frames[1].func.chunk.code[1]) = Op_Equal
    /\ result.kind = "none"
    /\ stack = <<ValNil, ValBoolean(FALSE)>>

\* The code units of the discard of n locals.
Discard(n) ==
    IF n = 0 THEN <<>>
    ELSE IF n = 1 THEN write_op(NewChunk, Op_Pop).code
    ELSE write_op_arg(NewChunk, Op_PopN, n).code

\* C33: every end_scope of the compilation has removed from the end of the
\* locals array the locals of the scope left and no other (those left in
\* the array have a depth that is at most the depth after the call, those
\* removed the depth of the scope left), has emitted the discard of as
\* many values (nothing, Pop, or PopN(n) for more than one) and nothing
\* else, and has left the array as it was at the matching begin_scope.
C33_EndScope ==
    pc = "parsing" =>
        \A q \in DOMAIN parser.dbg.left :
            LET r == parser.dbg.left[q]
                n == Len(r.before) - Len(r.after)
            IN /\ n >= 0
               /\ r.after = SubSeq(r.before, 1, Len(r.before) - n)
               /\ \A i \in DOMAIN r.after : r.after[i].depth <= r.depth
               /\ \A i \in (Len(r.after) + 1)..Len(r.before) : r.before[i].depth = r.depth + 1
               /\ r.code = Discard(n)
               /\ r.after = r.begun

\* A scope with two locals, inside a scope that has a local, has been left.
C33_Reached ==
    /\ pc = "parsing"
    /\ \E q \in DOMAIN parser.dbg.left :
           /\ Len(parser.dbg.left[q].before) = Len(parser.dbg.left[q].after) + 2
           /\ parser.dbg.left[q].after # <<>>
           /\ HiByte(parser.dbg.left[q].code[1]) = Op_PopN

\* A scope with one local has been left, and a scope with none.
C33_PopAndNothing ==
    /\ pc = "parsing"
    /\ \E q \in DOMAIN parser.dbg.left :
           Len(parser.dbg.left[q].before) = Len(parser.dbg.left[q].after) + 1
    /\ \E q \in DOMAIN parser.dbg.left : parser.dbg.left[q].before = parser.dbg.left[q].after

\* The dispatch loop is about to run Call(argc) on a function of arity argc.
CallsFunction ==
    /\ NextIs(Op_Call)
    /\ Len(stack) >= NextOperand + 1
    /\ stack[Len(stack) - NextOperand].t = "Function"
    /\ stack[Len(stack) - NextOperand].v.arity = NextOperand

\* The dispatch loop is about to leave the frame of a function that was
\* called: its code has ended or its next instruction is Return.
Returns ==
    /\ pc = "running"
    /\ current > 0
    /\ stack # <<>>
    /\ IF ip >= chunk_len(RunChunk) THEN TRUE ELSE get_instruction(RunChunk, ip).opcode = Op_Return

\* C34: Call(argc) on a function of arity argc saves, in the frame of the
\* caller, the offset of the instruction after the Call, and pushes a frame
\* of the function with offset 0 and the index of the callee as base; the
\* stack stays, and the dispatch loop goes on at the first instruction of
\* the function.  When the function returns, its frame is popped, the
\* stack is cut to the base and the value that was on top is pushed: the
\* callee and its arguments have given way to one value, and the caller
\* goes on at the offset saved.
C34_CallReturn ==
    [][/\ CallsFunction =>
             /\ frames' = Append([frames EXCEPT ![current + 1].offset = ip + get_instruction(RunChunk, ip).len],
                                 [func |-> stack[Len(stack) - NextOperand].v, offset |-> 0,
                                  base |-> Len(stack) - NextOperand - 1])
             /\ current' = current + 1
             /\ ip' = 0
             /\ stack' = stack
             /\ Succeeds
       /\ Returns =>
             /\ frames' = SubSeq(frames, 1, Len(frames) - 1)
             /\ stack' = Append(SubSeq(stack, 1, RunFrame.base), stack[Len(stack)])
             /\ Len(stack') = RunFrame.base + 1
             /\ current' = current - 1
             /\ ip' = frames[current].offset
             /\ Succeeds]_vars

\* A function of arity 1 was called with one argument and has returned the
\* value it pushed: the caller is at the end of its code, and the callee
\* and the argument have given way to the value.
C34_Reached ==
    /\ pc = "running"
    /\ steps = 3
    /\ current = 0
    /\ Len(frames) = 1
    /\ HiByte(frames[1].func.chunk.code[1]) = Op_Call
    /\ ip = chunk_len(frames[1].func.chunk)
    /\ stack = <<ValNil, ValBoolean(TRUE)>>

\* C35: whenever the dispatch loop runs the script of an interpret call,
\* the frame it takes its instructions from is the frame pushed for that
\* call: its code is the code compiled from the source of the call.
C35_OwnCode == (pc = "running" /\ current = 0) => (RunFrame = frames[Len(frames)] /\ RunChunk = parser.chunk)

\* The second call of interpret, after a call that ended with a runtime
\* error, has run an instruction of the script of the first call.
C35_Reached ==
    /\ calls = 2
    /\ pc = "running"
    /\ steps > 0
    /\ Len(frames) = 2
    /\ current = 0
    /\ RunChunk # parser.chunk
    /\ frames[2].func.chunk = parser.chunk

\* C36: when an interpret call has returned Ok, the value stack and the
\* frame stack are both empty.
C36_EmptyAfterSuccess == (pc = "idle" /\ result.kind = "Ok") => (stack = <<>> /\ frames = <<>>)

\* An interpret call has returned Ok on a machine that holds the frame of an
\* earlier call.
C36_Reached == pc = "idle" /\ result.kind = "Ok" /\ calls = 2 /\ frames # <<>>

\* An interpret call that ran its script has returned Ok.
C36_RanToEnd == pc = "idle" /\ result.kind = "Ok" /\ steps > 0 /\ stack = <<>> /\ frames = <<>>

\* C37: the code of a script that compiled is balanced.  When the dispatch
\* loop comes from inside the code of a statement to the end of that code,
\* the value stack has the height it had when the statement was entered,
\* and one more when the statement is the declaration of a local; and no
\* instruction takes or reads a value that is not on the stack (the
\* process does not panic).
C37_Balanced ==
    [][pc = "running" =>
          /\ pc' # "panic"
          /\ pc' = "running" =>
                \A x \in SeqRange(RunDbg.stmts) :
                    (InRange(ip, x.lo, x.hi) /\ ip' = x.hi /\ x.lo \in DOMAIN entryH)
                       => Len(stack') = entryH[x.lo] + x.up]_vars

\* Both branches of an if statement with else have run, and the second
\* statement has come to its end with the stack as high as at its start.
C37_Reached ==
    /\ pc = "running"
    /\ calls = 1
    /\ parser.src = Scan(SrcIfElse)
    /\ stdout = <<"1", "4">>
    /\ \E x \in SeqRange(RunDbg.stmts) :
           x.fn = "if_statement" /\ x.lo > 0 /\ x.lo \in DOMAIN entryH /\ ip = x.hi /\ Len(stack) = entryH[x.lo]

\* The declaration of a local has come to its end with the stack one
\* higher than at its start.
C37_LocalDeclared ==
    /\ pc = "running"
    /\ steps > 0
    /\ \E x \in SeqRange(RunDbg.stmts) :
           x.up = 1 /\ x.lo \in DOMAIN entryH /\ ip = x.hi /\ Len(stack) = entryH[x.lo] + 1

\* The JumpIfFalse instructions of chunk c whose operand is the placeholder.
Unpatched(c) ==
    {off \in InstructionStarts(c) :
        get_instruction(c, off).opcode = Op_JumpIfFalse /\ get_instruction(c, off).operand = JUMP_PLACEHOLDER}

\* C38: a switch without default none of whose cases has the value of the
\* switch runs no case body, and the statement after it runs next: of
\* `switch (1) { case 2: print 2; } print 3;` the output is 3 and the call
\* returns Ok; and the code that was compiled holds no JumpIfFalse with the
\* placeholder as operand.
C38_SwitchNoMatch ==
    /\ Done(SrcSwitchNoMatch) => (result.kind = "Ok" /\ stdout = <<"3">>)
    /\ (pc = "running" /\ calls = 1 /\ parser.src = Scan(SrcSwitchNoMatch)) => Unpatched(RunChunk) = {}

\* The call has returned Ok without output: the statement after the switch
\* has not run.
C38_Reached == Done(SrcSwitchNoMatch) /\ result.kind = "Ok" /\ stdout = <<>>

(***************************************************************************)
(* Parser::parse on every source of up to MaxTokens tokens (braces, `(`,   *)
(* `:`, `;`, `switch`, `case`, `default`, a number and a character that    *)
(* the scanner rejects) and on longer sources that are malformed inside    *)
(* each loop of the parser.                                                *)
(* The parser is one thread of control: it takes its next step whenever it *)
(* has one.                                                                *)
(***************************************************************************)
MaxTokens == 3

ParseTokens == {p("{"), p("}"), p("("), p(":"), p(";"), k("switch"), k("case"), k("default"), num(1), bad("@")}

ShortSources == UNION {[1..n -> ParseTokens] : n \in 0..MaxTokens}

LongSources ==
    {<<k("switch"), p("("), num(1), p(")"), p("{"), k("case"), num(1), p(":"), num(1), p(";"),
       k("case"), num(2), p(":"), p("{"), bad("@"), p("}"), k("default"), p(":"), p(";"), p("}")>>,
     <<k("switch"), num(1), k("default"), num(1), num(1)>>,
     <<p("{"), p("{"), k("switch"), p("("), num(1), p(")"), p("{"), k("case")>>,
     <<k("switch"), p("("), num(1), p(")"), p("{"), num(1), p("}")>>,
     <<k("switch"), p("("), num(1), p(")"), p("{"), k("default"), p(":"), num(1), p(";"),
       k("case"), num(1), p(":"), num(1), p(";"), p("}")>>,
     <<p("{"), k("var"), num(1), p(";"), p(")"), p(")"), k("print"), p(";"), p("}"), p("}")>>,
     <<bad("@"), bad("@"), bad("@")>>,
     <<p("{"), num(1), num(1), num(1), p("}")>>,
     <<k("class"), k("fun"), k("return"), p("+"), k("while"), k("for"), k("if")>>,
     <<k("print"), num(1), p(";"), NL, k("print"), num(2), p(";")>>}

NextParse ==
    \/ \E src \in ShortSources \cup LongSources : calls = 0 /\ Interpret(src)
    \/ ParseTurn
    \/ ParseStep
    \/ ParseEnd
    \/ Step

\* A step of the parser, told by what it does to the counters: ParseTurn
\* and ParseStep are the steps of NextParse that count a step while a call
\* parses, and one of them can be taken whenever the loop of parse has not
\* seen Eof or a call of the grammar is open.
ParserRuns ==
    /\ pc = "parsing"
    /\ ~(parser.ctl = <<>> /\ check(parser, "Eof"))
    /\ steps < MaxParseSteps
    /\ steps' = steps + 1

\* The return of parse, told the same way: ParseEnd is the step of
\* NextParse that leaves the parsing.
ParserReturns ==
    /\ pc = "parsing"
    /\ parser.ctl = <<>>
    /\ check(parser, "Eof")
    /\ pc' \in {"running", "idle"}

\* The parser is straight-line code on the one thread of the interpreter:
\* when it has a step to take, it takes it.
SpecParse == Init /\ [][NextParse]_vars /\ WF_steps(ParserRuns) /\ WF_pc(ParserReturns)

\* Every turn of a loop of the parser has taken a token: at the head of the
\* loop of parse, block, switch_statement or switch_case fewer tokens are
\* left than at the head of the turn before.
TurnsConsume ==
    pc = "parsing" =>
        IF parser.ctl = <<>>
        THEN parser.seen = -1 \/ Remaining(parser) < parser.seen
        ELSE LoopHead(here(parser)) => (here(parser).seen = -1 \/ Remaining(parser) < here(parser).seen)

\* C39: the compilation of a source, well formed or not, comes to its end:
\* parse returns, with Eof as the current token and no call of the grammar
\* left open; and on the way every turn of a loop of the parser has taken
\* at least one token.
C39_ParseTerminates ==
    /\ []TurnsConsume
    /\ (pc = "parsing") ~> (pc # "parsing" /\ parser.ctl = <<>> /\ parser.current.ty = "Eof")

\* The compilation of `{ { switch ( 1 ) { case`, in which two blocks, a
\* switch and a case are left open, has ended with errors.
C39_Reached ==
    /\ pc = "idle"
    /\ calls = 1
    /\ parser.src = Scan(<<p("{"), p("{"), k("switch"), p("("), num(1), p(")"), p("{"), k("case")>>)
    /\ parser.had_error
    /\ parser.ctl = <<>>
    /\ parser.current.ty = "Eof"
    /\ Len(parser.stderr) >= 1
====
